---- MODULE Spec2Model ----
(***************************************************************************)
(* A model of the coordination and analytics core of                       *)
(* ai-study-coach-agents:                                                  *)
(*   ProgressTrackerAgent      (src/src/agents/progress_tracker.py)        *)
(*   DataProcessingAgent       (src/src/agents/data_processing.py)         *)
(*   StudyPlannerAgent         (src/src/agents/study_planner.py)           *)
(*   QuizGeneratorAgent        (src/src/agents/quiz_generator.py)          *)
(*   ResourceRecommenderAgent  (src/src/agents/resource_recommender.py)    *)
(*   AgentOrchestrator         (src/src/main.py)                           *)
(*   GeminiService             (src/src/services/gemini_service.py)        *)
(*   FirebaseService           (src/src/services/firebase_service.py)      *)
(*                                                                         *)
(* Numbers.  Python floats are modelled by exact fixed-point and rational  *)
(* arithmetic.  A quiz score is an integer number of thousandths of a      *)
(* point (55000 is 55.0, 54996 is 54.996); a mean is kept as the pair      *)
(* sum / count and compared by cross-multiplication; a value rounded by    *)
(* round(x, 2) is an integer number of hundredths.  Python's round() is    *)
(* round-half-to-even on the double; on an exact decimal tie that the       *)
(* double cannot represent the result follows the double's expansion.  The *)
(* input sets below produce no such tie.                                   *)
(***************************************************************************)
EXTENDS Integers, Sequences, FiniteSets, TLC

VARIABLES
    op,                 \* the operation that has been called ("none" before)
    quiz_history,       \* sequence of quiz attempts [topic, score]
    study_sessions,     \* sequence of study sessions [date, duration]
    time_series_data,   \* sequence of points [timestamp, value]
    ret,                \* what the called operation handed to its caller
    cg_pc,              \* StudyPlannerAgent._call_gemini: where the coroutine is
    attempt,            \* _call_gemini: the loop variable
    invocations,        \* _call_gemini: outcomes of model.generate_content so far
    sleeps,             \* _call_gemini: the asyncio.sleep delays so far, in seconds
    cg_ret,             \* _call_gemini: what its caller received
    mock_mode,          \* GeminiService.mock_mode
    gs_pc,              \* GeminiService.generate_text: where the call is
    gs_attempt,         \* generate_text: the retry decorator's attempt number
    gs_invocations,     \* generate_text: outcomes of model.generate_content so far
    gs_sleeps,          \* generate_text: the decorator's waits so far, in seconds
    gs_ret,             \* generate_text: what its caller received
    student_profile,    \* the profile handed to the planner / the orchestrator
    sp_pc,              \* StudyPlannerAgent.create_study_plan: where the coroutine is
    sp_ret,             \* create_study_plan: what its caller received
    quiz_request,       \* generate_quiz_from_pdf: its arguments
    qg_pc,              \* QuizGeneratorAgent.generate_quiz_from_pdf: where it is
    qg_invocations,     \* _generate_questions: outcomes of model.generate_content
    qg_ret,             \* generate_quiz_from_pdf: what its caller received
    rs_ret,             \* AgentOrchestrator.run_study_session: what it returned
    resource_request,   \* recommend_resources: its arguments
    rr_ret,             \* recommend_resources: what its caller received
    ap_ret,             \* analyze_progress: what its caller received
    insight_input,      \* the arguments of the insight generators
    fb_mock_mode,       \* FirebaseService.mock_mode
    memory_store,       \* FirebaseService.memory_store: session_id -> session
    store_log,          \* the store calls that returned, in order, with their results
    update_tasks,       \* update_session calls scheduled on the event loop
    now,                \* the wall clock read by datetime.now(): hours for the
                        \* analytics and the planner, seconds for the store
    earlier_ret         \* what an earlier call of the same operation returned

analytics == <<op, quiz_history, study_sessions, time_series_data, ret>>

callers == <<cg_pc, attempt, invocations, sleeps, cg_ret,
             mock_mode, gs_pc, gs_attempt, gs_invocations, gs_sleeps, gs_ret>>

planner == <<student_profile, sp_pc, sp_ret>>

quizgen == <<quiz_request, qg_pc, qg_invocations, qg_ret>>

session == <<rs_ret>>

fanout == <<resource_request, rr_ret, ap_ret>>

insightgen == <<insight_input>>

store == <<fb_mock_mode, memory_store, store_log, update_tasks>>

clock == <<now, earlier_ret>>

others == <<planner, quizgen, session, fanout, insightgen, store, clock>>

vars == <<analytics, callers, others>>

\* no generation call is in progress or was made
CallersIdle ==
    /\ cg_pc = "idle" /\ attempt = 0 /\ invocations = <<>> /\ sleeps = <<>>
    /\ cg_ret = [kind |-> "none"]
    /\ mock_mode = FALSE
    /\ gs_pc = "idle" /\ gs_attempt = 1 /\ gs_invocations = <<>> /\ gs_sleeps = <<>>
    /\ gs_ret = [kind |-> "none"]

\* no analytics operation was called
AnalyticsIdle ==
    /\ op = "none" /\ quiz_history = <<>> /\ study_sessions = <<>>
    /\ time_series_data = <<>> /\ ret = [kind |-> "none"]

\* no planner, quiz, orchestrator, recommender or store operation was called
OthersIdle ==
    /\ student_profile = [name |-> "", subjects |-> <<>>]
    /\ sp_pc = "idle" /\ sp_ret = [kind |-> "none"]
    /\ quiz_request = [topic |-> "", num_questions |-> 0]
    /\ qg_pc = "idle" /\ qg_invocations = <<>> /\ qg_ret = [kind |-> "none"]
    /\ rs_ret = [kind |-> "none"]
    /\ resource_request = [topic |-> ""]
    /\ rr_ret = [kind |-> "none"] /\ ap_ret = [kind |-> "none"]
    /\ insight_input = [kind |-> "none"]
    /\ fb_mock_mode = TRUE /\ memory_store = <<>> /\ store_log = <<>>
    /\ update_tasks = {}
    /\ now = 0 /\ earlier_ret = [kind |-> "none"]

(***************************************************************************)
(* Arithmetic                                                              *)
(***************************************************************************)

\* thousandths of a point per point: the fixed-point scale of a score
PointScale == 1000

Abs(x) == IF x < 0 THEN -x ELSE x

RECURSIVE Sum(_)
\* sum(scores)
Sum(s) == IF s = <<>> THEN 0 ELSE s[1] + Sum(Tail(s))

RECURSIVE SeqMax(_)
SeqMax(s) == IF Len(s) = 1 THEN s[1]
             ELSE LET m == SeqMax(Tail(s)) IN IF s[1] >= m THEN s[1] ELSE m

RECURSIVE SeqMin(_)
SeqMin(s) == IF Len(s) = 1 THEN s[1]
             ELSE LET m == SeqMin(Tail(s)) IN IF s[1] <= m THEN s[1] ELSE m

\* the integer nearest to p / q (q # 0), ties to the even neighbour:
\* Python's round() of the quotient p / q
RoundTruncates(p, q) ==
    LET n == IF q < 0 THEN -p ELSE p
        d == Abs(q)
    IN  n \div d

RoundDiv(p, q) ==
    LET n == IF q < 0 THEN -p ELSE p
        d == Abs(q)
        fl == n \div d
        r == n % d
    IN  IF 2 * r < d THEN fl
        ELSE IF 2 * r > d THEN fl + 1
        ELSE IF fl % 2 = 0 THEN fl ELSE fl + 1

RECURSIVE GCD(_, _)
GCD(a, b) == IF b = 0 THEN a ELSE GCD(b, a % b)

\* round(num / den * factor), den # 0: the quotient is brought to lowest
\* terms first, which keeps the products within the checker's integers
RoundRatio(num, den, factor) ==
    LET g == GCD(Abs(num), Abs(den))
    IN  RoundDiv((num \div g) * factor, den \div g)

\* all sequences over S of length 0..n
SeqsUpTo(S, n) == UNION {[1..k -> S] : k \in 0..n}

(***************************************************************************)
(* ProgressTrackerAgent._identify_learning_gaps                            *)
(***************************************************************************)

GapThreshold == 60
HighThreshold == 40
MediumThreshold == 55

\* one key per attempt, a topic repeated as often as it was attempted
TopicOrderPerAttempt(qh) == [i \in 1..Len(qh) |-> qh[i].topic]

\* the keys of topic_performance in insertion order (first occurrence)
RECURSIVE TopicOrder(_)
TopicOrder(qh) ==
    IF qh = <<>> THEN <<>>
    ELSE LET front == TopicOrder(SubSeq(qh, 1, Len(qh) - 1))
             t == qh[Len(qh)].topic
         IN  IF \E i \in 1..Len(front) : front[i] = t THEN front
             ELSE Append(front, t)

\* topic_performance[topic]: the topic's scores in input order
RECURSIVE TopicScores(_, _)
TopicScores(qh, t) ==
    IF qh = <<>> THEN <<>>
    ELSE IF qh[1].topic = t THEN <<qh[1].score>> \o TopicScores(Tail(qh), t)
    ELSE TopicScores(Tail(qh), t)

\* avg_score < bound, for avg_score = sum(scores) / len(scores)
AvgBelow(scores, bound) == Sum(scores) < bound * PointScale * Len(scores)

\* round(avg_score, 2), in hundredths of a point
RoundedAvg(scores) == RoundDiv(Sum(scores), 10 * Len(scores))

SeverityMediumFirst(scores) ==
    IF AvgBelow(scores, MediumThreshold) THEN "medium"
    ELSE IF AvgBelow(scores, HighThreshold) THEN "high"
    ELSE "low"

Severity(scores) ==
    IF AvgBelow(scores, HighThreshold) THEN "high"
    ELSE IF AvgBelow(scores, MediumThreshold) THEN "medium"
    ELSE "low"

IsGapAtMost(scores) == Sum(scores) <= GapThreshold * PointScale * Len(scores)

IsGap(scores) == AvgBelow(scores, GapThreshold)

\* the loop over topic_performance.items(): one entry per gap topic, in
\* insertion order
RECURSIVE GapEntries(_, _)
GapEntries(qh, topics) ==
    IF topics = <<>> THEN <<>>
    ELSE LET scores == TopicScores(qh, topics[1])
             rest == GapEntries(qh, Tail(topics))
         IN  IF IsGap(scores)
             THEN <<[topic |-> topics[1],
                     average_score |-> RoundedAvg(scores),
                     attempts |-> Len(scores),
                     severity |-> Severity(scores)]>> \o rest
             ELSE rest

\* key(a) < key(b) for key = (severity == 'high', -average_score)
KeyLess(a, b) ==
    LET ha == IF a.severity = "high" THEN 1 ELSE 0
        hb == IF b.severity = "high" THEN 1 ELSE 0
    IN  \/ ha < hb
        \/ ha = hb /\ -a.average_score < -b.average_score

\* x placed after every entry whose key is >= its own
InsertDescending(sorted, x) ==
    LET smaller == {i \in 1..Len(sorted) : KeyLess(sorted[i], x)}
        at == IF smaller = {} THEN Len(sorted) + 1
              ELSE CHOOSE i \in smaller : \A j \in smaller : i <= j
    IN  SubSeq(sorted, 1, at - 1) \o <<x>> \o SubSeq(sorted, at, Len(sorted))

\* list.sort(key = ..., reverse = True): descending by key, entries of equal
\* key in their original order
RECURSIVE SortGaps(_)
SortGaps(gaps) ==
    IF gaps = <<>> THEN <<>>
    ELSE InsertDescending(SortGaps(SubSeq(gaps, 1, Len(gaps) - 1)), gaps[Len(gaps)])

IdentifyLearningGaps(qh) ==
    IF qh = <<>> THEN <<>>
    ELSE SortGaps(GapEntries(qh, TopicOrder(qh)))

(***************************************************************************)
(* Inputs of the gap analysis                                              *)
(***************************************************************************)

MaxAttempts == 3
Topics == {"Math", "Physics", "Chemistry"}
GapScores == {30000, 54996, 55000, 60000, 90000}
QuizAttempts == [topic : Topics, score : GapScores]

InitGaps ==
    /\ op = "none"
    /\ quiz_history \in SeqsUpTo(QuizAttempts, MaxAttempts)
    /\ study_sessions = <<>>
    /\ time_series_data = <<>>
    /\ ret = [kind |-> "none"]
    /\ CallersIdle
    /\ OthersIdle

CallIdentifyLearningGaps ==
    /\ op = "none"
    /\ op' = "identify_learning_gaps"
    /\ ret' = [kind |-> "returned", value |-> IdentifyLearningGaps(quiz_history)]
    /\ UNCHANGED <<quiz_history, study_sessions, time_series_data, callers, others>>

NextGaps == CallIdentifyLearningGaps

SpecGaps == InitGaps /\ [][NextGaps]_vars

(***************************************************************************)
(* Claims about the gap analysis, stated on the input itself: the attempts *)
(* of a topic, their number and their total are recomputed from            *)
(* quiz_history, not taken from the grouping above.                        *)
(***************************************************************************)

AttemptsOf(t) == {i \in 1..Len(quiz_history) : quiz_history[i].topic = t}

RECURSIVE TotalOver(_)
TotalOver(S) ==
    IF S = {} THEN 0
    ELSE LET i == CHOOSE j \in S : TRUE
         IN  quiz_history[i].score + TotalOver(S \ {i})

\* the topic's mean score is below `points`
MeanBelow(t, points) ==
    TotalOver(AttemptsOf(t)) < points * 1000 * Cardinality(AttemptsOf(t))

GapsReturned == op = "identify_learning_gaps" /\ ret.kind = "returned"

SeverityRank(sev) == IF sev = "high" THEN 0 ELSE IF sev = "medium" THEN 1 ELSE 2

\* C1: identify_gaps never returns an entry for a topic whose mean score
\* over that topic's attempts is 60 or more.
C1_NoGapAtOrAbove60 ==
    GapsReturned =>
        \A i \in 1..Len(ret.value) : MeanBelow(ret.value[i].topic, 60)

\* C1 witness: a history with a topic of mean 60 or more, left out of a
\* non-empty result.
C1_Witness ==
    /\ GapsReturned
    /\ Len(ret.value) >= 1
    /\ \E t \in Topics :
          /\ AttemptsOf(t) # {}
          /\ ~MeanBelow(t, 60)
          /\ \A i \in 1..Len(ret.value) : ret.value[i].topic # t

\* C2 (as claimed): every high entry precedes every medium entry, every
\* medium entry precedes every low entry, and within one severity the
\* entries are in ascending order of average score.
C2_SeverityThenScoreOrder ==
    GapsReturned =>
        \A i, j \in 1..Len(ret.value) :
            i < j =>
                /\ SeverityRank(ret.value[i].severity) <= SeverityRank(ret.value[j].severity)
                /\ ret.value[i].severity = ret.value[j].severity
                      => ret.value[i].average_score <= ret.value[j].average_score

\* C3: every returned gap carries the severity its topic's mean score
\* determines: high below 40, medium from 40 to below 55, low from 55 to
\* below 60.
C3_SeverityFollowsMean ==
    GapsReturned =>
        \A i \in 1..Len(ret.value) :
            LET t == ret.value[i].topic
                sev == ret.value[i].severity
            IN  /\ sev = "high" <=> MeanBelow(t, 40)
                /\ sev = "medium" <=> (~MeanBelow(t, 40) /\ MeanBelow(t, 55))
                /\ sev = "low" <=> (~MeanBelow(t, 55) /\ MeanBelow(t, 60))

\* C3 witness: one result holding a gap of each severity.
C3_Witness ==
    /\ GapsReturned
    /\ \A sev \in {"high", "medium", "low"} :
          \E i \in 1..Len(ret.value) : ret.value[i].severity = sev

(***************************************************************************)
(* ProgressTrackerAgent._calculate_performance_metrics                     *)
(* DataProcessingAgent.calculate_performance_metrics                       *)
(***************************************************************************)

\* the oldest and the newest attempts compared by improvement_rate
WindowSize == 3

\* [quiz.get('score', 0) for quiz in quiz_history]
Scores(qh) == [i \in 1..Len(qh) |-> qh[i].score]

\* scores[:3] and scores[-3:]
FirstScoresShort(scores, k) ==
    SubSeq(scores, 1, IF Len(scores) < k - 1 THEN Len(scores) ELSE k - 1)

FirstScores(scores, k) ==
    SubSeq(scores, 1, IF Len(scores) < k THEN Len(scores) ELSE k)

\* the newest attempts taken from the front of the list
LastScoresFromFront(scores, k) ==
    SubSeq(scores, 1, IF Len(scores) < k THEN Len(scores) ELSE k)

LastScores(scores, k) ==
    SubSeq(scores, IF Len(scores) < k THEN 1 ELSE Len(scores) - k + 1, Len(scores))

\* newest score against the oldest, from two attempts on
ImprovementRateEndpoints(scores) ==
    IF Len(scores) >= 2
    THEN LET recent == scores[Len(scores)]
             early == scores[1]
         IN  IF early > 0 THEN RoundRatio(recent - early, early, 100 * 100) ELSE 0
    ELSE 0

\* round(improvement_rate, 2), in hundredths of a percent; recent_avg and
\* early_avg are both sums over 3, so the quotient is that of the sums
ImprovementRate(scores) ==
    IF Len(scores) >= WindowSize
    THEN LET recent == Sum(LastScores(scores, WindowSize))
             early == Sum(FirstScores(scores, WindowSize))
         IN  IF early > 0 THEN RoundRatio(recent - early, early, 100 * 100) ELSE 0
    ELSE 0

\* round(sum(scores) / total_quizzes, 2) cut off instead of rounded
AverageScoreTruncated(scores) == RoundTruncates(Sum(scores), 10 * Len(scores))

\* round(sum(scores) / total_quizzes, 2), in hundredths of a point
AverageScore(scores) == RoundDiv(Sum(scores), 10 * Len(scores))

CalculatePerformanceMetrics(qh) ==
    IF qh = <<>>
    THEN [average_score |-> 0, total_quizzes |-> 0, improvement_rate |-> 0]
    ELSE LET scores == Scores(qh)
         IN  [average_score |-> AverageScore(scores),
              total_quizzes |-> Len(scores),
              improvement_rate |-> ImprovementRate(scores),
              highest_score |-> SeqMax(scores),
              lowest_score |-> SeqMin(scores)]

\* quiz.get('subject', 'unknown')
SubjectOf(q) == IF "subject" \in DOMAIN q THEN q.subject ELSE "unknown"

RECURSIVE SubjectScores(_, _)
SubjectScores(qr, subj) ==
    IF qr = <<>> THEN <<>>
    ELSE IF SubjectOf(qr[1]) = subj
         THEN <<qr[1].score>> \o SubjectScores(Tail(qr), subj)
         ELSE SubjectScores(Tail(qr), subj)

\* the unrounded quotient num / den
Quotient(n, d) == [num |-> n, den |-> d]

\* the DataProcessingAgent variant: never raises; no rounding; an error
\* record for the empty collection
DPCalculatePerformanceMetrics(qr) ==
    IF qr = <<>>
    THEN [error |-> "No quiz results to analyze"]
    ELSE LET scores == Scores(qr)
             subjects == {SubjectOf(qr[i]) : i \in 1..Len(qr)}
         IN  [total_quizzes |-> Len(qr),
              average_score |-> Quotient(Sum(scores), Len(qr)),
              subject_performance |->
                  [sj \in subjects |->
                      Quotient(Sum(SubjectScores(qr, sj)), Len(SubjectScores(qr, sj)))],
              highest_score |-> SeqMax(scores),
              lowest_score |-> SeqMin(scores)]

(***************************************************************************)
(* Inputs of the performance metrics                                       *)
(***************************************************************************)

MaxQuizzes == 5
PerfScores == {0, 40000, 70000, 99990, 100000}
PerfAttempts == [topic : {"Math"}, score : PerfScores]

InitPerf ==
    /\ op = "none"
    /\ quiz_history \in SeqsUpTo(PerfAttempts, MaxQuizzes)
    /\ study_sessions = <<>>
    /\ time_series_data = <<>>
    /\ ret = [kind |-> "none"]
    /\ CallersIdle
    /\ OthersIdle

CallCalculatePerformanceMetrics ==
    /\ op = "none"
    /\ op' = "calculate_performance_metrics"
    /\ ret' = [kind |-> "returned", value |-> CalculatePerformanceMetrics(quiz_history)]
    /\ UNCHANGED <<quiz_history, study_sessions, time_series_data, callers, others>>

CallDPCalculatePerformanceMetrics ==
    /\ op = "none"
    /\ op' = "dp_calculate_performance_metrics"
    /\ ret' = [kind |-> "returned", value |-> DPCalculatePerformanceMetrics(quiz_history)]
    /\ UNCHANGED <<quiz_history, study_sessions, time_series_data, callers, others>>

NextPerf ==
    \/ CallCalculatePerformanceMetrics
    \/ CallDPCalculatePerformanceMetrics

SpecPerf == InitPerf /\ [][NextPerf]_vars

PerfReturned == op = "calculate_performance_metrics" /\ ret.kind = "returned"

DPPerfReturned == op = "dp_calculate_performance_metrics" /\ ret.kind = "returned"

\* the total of all scores of quiz_history
ScoreTotal == TotalOver(1..Len(quiz_history))

C5_FewAttemptsNoImprovement ==
    (PerfReturned /\ Len(quiz_history) < 3) => ret.value.improvement_rate = 0

\* C5 witness: two attempts, the second better than a non-zero first.
C5_Witness ==
    /\ PerfReturned
    /\ Len(quiz_history) = 2
    /\ quiz_history[1].score > 0
    /\ quiz_history[2].score > quiz_history[1].score
    /\ ret.value.improvement_rate = 0

(***************************************************************************)
(* ProgressTrackerAgent._calculate_engagement_metrics                      *)
(* A session's date is a whole number of hours since some epoch.           *)
(***************************************************************************)

HoursPerDay == 24
DaysPerWeek == 7
ConsistencyScale == 10
ConsistencyCap == 100

\* the cap left out: round(consistency_score, 2) as computed
CapMissing(centi) == centi

\* min(round(consistency_score, 2), 100), in hundredths
Cap(centi) == IF centi < ConsistencyCap * 100 THEN centi ELSE ConsistencyCap * 100

\* (max(dates) - min(dates)).days + 1
DateRange(dates) == ((SeqMax(dates) - SeqMin(dates)) \div HoursPerDay) + 1

\* round((total_sessions / max(date_range / 7, 1)) * 10, 2), in hundredths
ConsistencyScore(total_sessions, date_range) ==
    IF date_range <= DaysPerWeek
    THEN total_sessions * ConsistencyScale * 100
    ELSE RoundDiv(total_sessions * DaysPerWeek * ConsistencyScale * 100, date_range)

CalculateEngagementMetrics(sessions) ==
    IF sessions = <<>>
    THEN [total_sessions |-> 0, total_study_time |-> 0,
          average_session_duration |-> 0, consistency_score |-> 0]
    ELSE LET total_sessions == Len(sessions)
             total_study_time == Sum([i \in 1..Len(sessions) |-> sessions[i].duration])
             dates == [i \in 1..Len(sessions) |-> sessions[i].date]
         IN  [total_sessions |-> total_sessions,
              total_study_time |-> total_study_time,
              average_session_duration |-> RoundDiv(total_study_time * 100, total_sessions),
              consistency_score |->
                  Cap(ConsistencyScore(total_sessions, DateRange(dates)))]

(***************************************************************************)
(* Inputs of the engagement metrics: every session carries a date, so the  *)
(* default datetime.now() of s.get('date', ...) is not drawn on.           *)
(***************************************************************************)

MaxSessions == 11
SessionDates == {0, 150, 480}
SessionDurations == {45}
StudySessions == [date : SessionDates, duration : SessionDurations]

InitEngagement ==
    /\ op = "none"
    /\ quiz_history = <<>>
    /\ study_sessions \in SeqsUpTo(StudySessions, MaxSessions)
    /\ time_series_data = <<>>
    /\ ret = [kind |-> "none"]
    /\ CallersIdle
    /\ OthersIdle

CallCalculateEngagementMetrics ==
    /\ op = "none"
    /\ op' = "calculate_engagement_metrics"
    /\ ret' = [kind |-> "returned", value |-> CalculateEngagementMetrics(study_sessions)]
    /\ UNCHANGED <<quiz_history, study_sessions, time_series_data, callers, others>>

NextEngagement == CallCalculateEngagementMetrics

SpecEngagement == InitEngagement /\ [][NextEngagement]_vars

EngagementReturned == op = "calculate_engagement_metrics" /\ ret.kind = "returned"

\* C6: for every collection of study sessions consistency_score is at most
\* 100 and at least 0 (in hundredths: 0..10000).
C6_ConsistencyWithin0And100 ==
    EngagementReturned =>
        /\ ret.value.consistency_score >= 0
        /\ ret.value.consistency_score <= 100 * 100

\* C6 witness: more than 10 sessions within one day, whose raw score
\* (sessions per week times 10) exceeds 100, reported as 100.
C6_Witness ==
    /\ EngagementReturned
    /\ Len(study_sessions) > 10
    /\ \A i \in 1..Len(study_sessions) : study_sessions[i].date = study_sessions[1].date
    /\ ret.value.consistency_score = 100 * 100

(***************************************************************************)
(* DataProcessingAgent.calculate_trends                                    *)
(***************************************************************************)

MinTrendPoints == 2

\* x placed after every point whose timestamp is <= its own
InsertByTimestamp(sorted, x) ==
    LET later == {i \in 1..Len(sorted) : sorted[i].timestamp > x.timestamp}
        at == IF later = {} THEN Len(sorted) + 1
              ELSE CHOOSE i \in later : \A j \in later : i <= j
    IN  SubSeq(sorted, 1, at - 1) \o <<x>> \o SubSeq(sorted, at, Len(sorted))

\* the points left in the order they were supplied
SortedByTimestampUnsorted(points) == points

\* sorted(time_series_data, key = timestamp): ascending, points of equal
\* timestamp in their original order
RECURSIVE SortedByTimestamp(_)
SortedByTimestamp(points) ==
    IF points = <<>> THEN <<>>
    ELSE InsertByTimestamp(SortedByTimestamp(SubSeq(points, 1, Len(points) - 1)),
                           points[Len(points)])

Direction(change) ==
    IF change > 0 THEN "increasing"
    ELSE IF change < 0 THEN "decreasing"
    ELSE "stable"

\* round(change / first_value * 100, 2) if first_value != 0 else 0, in
\* hundredths of a percent
PercentChange(change, first_value) ==
    IF first_value # 0 THEN RoundRatio(change, first_value, 100 * 100) ELSE 0

\* What the caller of calculate_trends receives.  Every path of the function
\* is inside its try block and both the guard and the except clause return
\* a record, so the outcome is always a returned value.
CalculateTrends(data) ==
    IF Len(data) < MinTrendPoints
    THEN [kind |-> "returned",
          value |-> [error |-> "Insufficient data for trend analysis"]]
    ELSE LET sorted_data == SortedByTimestamp(data)
             first_value == sorted_data[1].value
             last_value == sorted_data[Len(sorted_data)].value
             change == last_value - first_value
         IN  [kind |-> "returned",
              value |-> [direction |-> Direction(change),
                         absolute_change |-> change,
                         percent_change |-> PercentChange(change, first_value),
                         data_points |-> Len(sorted_data)]]

(***************************************************************************)
(* Inputs of the trend analysis                                            *)
(***************************************************************************)

MaxPoints == 3
Timestamps == {1, 2, 3}
Values == {0, 50, 75}
Points == [timestamp : Timestamps, value : Values]

InitTrend ==
    /\ op = "none"
    /\ quiz_history = <<>>
    /\ study_sessions = <<>>
    /\ time_series_data \in SeqsUpTo(Points, MaxPoints)
    /\ ret = [kind |-> "none"]
    /\ CallersIdle
    /\ OthersIdle

CallCalculateTrends ==
    /\ op = "none"
    /\ op' = "calculate_trends"
    /\ ret' = CalculateTrends(time_series_data)
    /\ UNCHANGED <<quiz_history, study_sessions, time_series_data, callers, others>>

NextTrend == CallCalculateTrends

SpecTrend == InitTrend /\ [][NextTrend]_vars

TrendCalled == op = "calculate_trends"

\* C7 (as claimed): trend called with fewer than 2 data points fails with
\* InsufficientDataError that reaches its caller as a failure; it is not
\* turned into an ordinary returned result.
C7_TooFewPointsRaises ==
    (TrendCalled /\ Len(time_series_data) < 2) =>
        /\ ret.kind = "raised"
        /\ ret.error = "InsufficientDataError"

\* the positions of the earliest and of the latest timestamps supplied
Earliest ==
    {i \in 1..Len(time_series_data) :
        \A j \in 1..Len(time_series_data) :
            time_series_data[i].timestamp <= time_series_data[j].timestamp}

Latest ==
    {i \in 1..Len(time_series_data) :
        \A j \in 1..Len(time_series_data) :
            time_series_data[i].timestamp >= time_series_data[j].timestamp}

\* C8: for every series of at least 2 points, in any order, absolute_change
\* is the value of the latest-timestamp point minus the value of the
\* earliest-timestamp point; direction is increasing exactly when the change
\* is > 0, decreasing exactly when it is < 0, stable otherwise; and an
\* endpoint pair of values 50 and 75 gives increasing, 25 and 50.0 percent.
C8_EndpointDelta ==
    (TrendCalled /\ Len(time_series_data) >= 2) =>
        /\ ret.kind = "returned"
        /\ DOMAIN ret.value = {"direction", "absolute_change", "percent_change", "data_points"}
        /\ \E e \in Earliest, l \in Latest :
              ret.value.absolute_change
                  = time_series_data[l].value - time_series_data[e].value
        /\ (Cardinality(Earliest) = 1 /\ Cardinality(Latest) = 1) =>
              \A e \in Earliest, l \in Latest :
                  /\ ret.value.absolute_change
                         = time_series_data[l].value - time_series_data[e].value
                  /\ (time_series_data[e].value = 50 /\ time_series_data[l].value = 75) =>
                         /\ ret.value.direction = "increasing"
                         /\ ret.value.absolute_change = 25
                         /\ ret.value.percent_change = 50 * 100
        /\ ret.value.direction = "increasing" <=> ret.value.absolute_change > 0
        /\ ret.value.direction = "decreasing" <=> ret.value.absolute_change < 0
        /\ ret.value.direction = "stable" <=> ret.value.absolute_change = 0

\* C8 witness: three points of distinct timestamps supplied latest first,
\* 50 at the earliest and 75 at the latest, so that neither the first nor the
\* last point supplied is the one the change is taken from or to.
C8_Witness ==
    /\ TrendCalled
    /\ Len(time_series_data) = 3
    /\ time_series_data[1].timestamp = 3 /\ time_series_data[1].value = 75
    /\ time_series_data[2].timestamp = 1 /\ time_series_data[2].value = 50
    /\ time_series_data[3].timestamp = 2 /\ time_series_data[3].value = 0
    /\ ret.kind = "returned"
    /\ ret.value.absolute_change = 25
    /\ ret.value.direction = "increasing"

(***************************************************************************)
(* StudyPlannerAgent._call_gemini: the retrying caller                     *)
(* One invocation of model.generate_content either hands back a response   *)
(* text or raises; which one is the environment's choice.                  *)
(***************************************************************************)

max_retries == 3

Texts == {"plan text A", "plan text B"}
Errors == {"ExternalCallError", "TimeoutError"}

Succeeded(text) == [ok |-> TRUE, text |-> text]
Failed(error) == [ok |-> FALSE, error |-> error]

BackoffDoubled(failed_attempt) == 2 ^ (failed_attempt + 1)

\* the same sleep after every failure
BackoffConstant(failed_attempt) == 1

\* asyncio.sleep(2 ** attempt)
Backoff(failed_attempt) == 2 ^ failed_attempt

\* create_study_plan awaits _call_gemini(prompt): the loop starts
CallGemini ==
    /\ cg_pc = "idle"
    /\ cg_pc' = "try"
    /\ attempt' = 0
    /\ UNCHANGED <<invocations, sleeps, cg_ret>>
    /\ UNCHANGED <<mock_mode, gs_pc, gs_attempt, gs_invocations, gs_sleeps, gs_ret>>
    /\ UNCHANGED <<analytics, others>>

\* await asyncio.to_thread(self.model.generate_content, prompt) hands back a
\* response: return response.text
AttemptSucceeds ==
    /\ cg_pc = "try"
    /\ \E text \in Texts :
          /\ invocations' = Append(invocations, Succeeded(text))
          /\ cg_ret' = [kind |-> "returned", value |-> text]
    /\ cg_pc' = "returned"
    /\ UNCHANGED <<attempt, sleeps>>
    /\ UNCHANGED <<mock_mode, gs_pc, gs_attempt, gs_invocations, gs_sleeps, gs_ret>>
    /\ UNCHANGED <<analytics, others>>

\* the invocation raises: on the last attempt the error is re-raised, on an
\* earlier one the coroutine goes to sleep for 2 ** attempt seconds
AttemptFails ==
    /\ cg_pc = "try"
    /\ \E error \in Errors :
          /\ invocations' = Append(invocations, Failed(error))
          /\ IF attempt = max_retries - 1
             THEN /\ cg_pc' = "raised"
                  /\ cg_ret' = [kind |-> "raised", error |-> error]
                  /\ UNCHANGED sleeps
             ELSE /\ cg_pc' = "sleep"
                  /\ sleeps' = Append(sleeps, Backoff(attempt))
                  /\ UNCHANGED cg_ret
    /\ UNCHANGED attempt
    /\ UNCHANGED <<mock_mode, gs_pc, gs_attempt, gs_invocations, gs_sleeps, gs_ret>>
    /\ UNCHANGED <<analytics, others>>

\* the sleep is over: the next iteration of the loop
Wake ==
    /\ cg_pc = "sleep"
    /\ attempt' = attempt + 1
    /\ cg_pc' = "try"
    /\ UNCHANGED <<invocations, sleeps, cg_ret>>
    /\ UNCHANGED <<mock_mode, gs_pc, gs_attempt, gs_invocations, gs_sleeps, gs_ret>>
    /\ UNCHANGED <<analytics, others>>

(***************************************************************************)
(* GeminiService.generate_text under @retry(stop_after_attempt(3),         *)
(* wait_exponential(multiplier=1, min=2, max=10))                          *)
(***************************************************************************)

StopAfterAttempt == 3
WaitMultiplier == 1
WaitMin == 2
WaitMax == 10

\* wait_exponential: multiplier * 2 ** (attempt_number - 1), kept within
\* [min, max]
WaitExponential(attempt_number) ==
    LET raw == WaitMultiplier * 2 ^ (attempt_number - 1)
        capped == IF raw < WaitMax THEN raw ELSE WaitMax
    IN  IF capped > WaitMin THEN capped ELSE WaitMin

\* _generate_mock_response
MockResponse == [text |-> "mock text", success |-> TRUE, mock |-> TRUE]

\* the body without its except clause: a failure of the model is raised
GenerateTextBodyRaises(outcome) ==
    IF outcome.ok
    THEN [kind |-> "returned",
          value |-> [text |-> outcome.text, success |-> TRUE]]
    ELSE [kind |-> "raised", error |-> outcome.error]

\* The decorated function's own body, given the outcome of its one call of
\* model.generate_content: the try block returns the response, the except
\* clause returns a record with success False.  No path raises.
GenerateTextBody(outcome) ==
    IF outcome.ok
    THEN [kind |-> "returned",
          value |-> [text |-> outcome.text, success |-> TRUE]]
    ELSE [kind |-> "returned",
          value |-> [text |-> "", error |-> outcome.error, success |-> FALSE]]

\* GeminiService(): mock_mode is set when no API key is configured
Configure ==
    /\ gs_pc = "idle"
    /\ \E m \in BOOLEAN : mock_mode' = m
    /\ gs_pc' = "try"
    /\ UNCHANGED <<gs_attempt, gs_invocations, gs_sleeps, gs_ret>>
    /\ UNCHANGED <<cg_pc, attempt, invocations, sleeps, cg_ret>>
    /\ UNCHANGED <<analytics, others>>

\* generate_text in mock mode: no invocation of the model
GenerateTextMock ==
    /\ gs_pc = "try"
    /\ mock_mode
    /\ gs_ret' = [kind |-> "returned", value |-> MockResponse]
    /\ gs_pc' = "returned"
    /\ UNCHANGED <<mock_mode, gs_attempt, gs_invocations, gs_sleeps>>
    /\ UNCHANGED <<cg_pc, attempt, invocations, sleeps, cg_ret>>
    /\ UNCHANGED <<analytics, others>>

\* One attempt of the decorated generate_text: the body runs (it has no
\* suspension point) and the decorator hands its result to the caller, or,
\* had the body raised, waits and tries again until attempt 3.
GenerateTextAttempt ==
    /\ gs_pc = "try"
    /\ ~mock_mode
    /\ \E outcome \in {Succeeded(t) : t \in Texts} \cup {Failed(e) : e \in Errors} :
          LET r == GenerateTextBody(outcome)
          IN  /\ gs_invocations' = Append(gs_invocations, outcome)
              /\ IF r.kind = "returned"
                 THEN /\ gs_pc' = "returned"
                      /\ gs_ret' = r
                      /\ UNCHANGED <<gs_attempt, gs_sleeps>>
                 ELSE IF gs_attempt >= StopAfterAttempt
                 THEN /\ gs_pc' = "raised"
                      /\ gs_ret' = r
                      /\ UNCHANGED <<gs_attempt, gs_sleeps>>
                 ELSE /\ gs_attempt' = gs_attempt + 1
                      /\ gs_sleeps' = Append(gs_sleeps, WaitExponential(gs_attempt))
                      /\ UNCHANGED <<gs_pc, gs_ret>>
    /\ UNCHANGED mock_mode
    /\ UNCHANGED <<cg_pc, attempt, invocations, sleeps, cg_ret>>
    /\ UNCHANGED <<analytics, others>>

InitCallers == AnalyticsIdle /\ CallersIdle /\ OthersIdle

NextCallers ==
    \/ CallGemini
    \/ AttemptSucceeds
    \/ AttemptFails
    \/ Wake
    \/ Configure
    \/ GenerateTextMock
    \/ GenerateTextAttempt

SpecCallers == InitCallers /\ [][NextCallers]_vars

\* C9: if the operation fails on attempts 1..k-1 and succeeds on attempt k
\* (k <= 3), _call_gemini returns the result of attempt k after exactly k
\* invocations, having slept 1s after the first failure and 2s after the
\* second, and makes no invocation after the success.
C9_ReturnsFirstSuccess ==
    /\ \A i \in 1..Len(invocations) :
          invocations[i].ok => (i = Len(invocations) /\ cg_pc = "returned")
    /\ cg_pc = "returned" =>
          LET k == Len(invocations)
          IN  /\ k \in 1..3
              /\ invocations[k].ok
              /\ cg_ret = [kind |-> "returned", value |-> invocations[k].text]
              /\ Len(sleeps) = k - 1
              /\ k >= 2 => sleeps[1] = 1
              /\ k >= 3 => sleeps[2] = 2

\* C9 witness: two failures, then a success on attempt 3, after sleeps of 1s
\* and 2s.
C9_Witness ==
    /\ cg_pc = "returned"
    /\ Len(invocations) = 3
    /\ ~invocations[1].ok /\ ~invocations[2].ok /\ invocations[3].ok
    /\ sleeps = <<1, 2>>
    /\ cg_ret.value = invocations[3].text

\* C10 (as claimed): a retrying caller hands a result to its caller only
\* when its last invocation of the generation call succeeded, and after 3
\* consecutive failures it re-raises the last error; it never returns a
\* substituted result in place of a failure.  Stated of both retrying
\* callers, _call_gemini and the decorated generate_text.
C10_FailureIsReraised ==
    /\ cg_pc = "returned" => invocations[Len(invocations)].ok
    /\ (Len(invocations) = 3 /\ \A i \in 1..3 : ~invocations[i].ok) =>
          /\ cg_pc = "raised"
          /\ cg_ret = [kind |-> "raised", error |-> invocations[3].error]
    /\ (gs_pc = "returned" /\ ~mock_mode) => gs_invocations[Len(gs_invocations)].ok
    /\ (gs_invocations # <<>> /\ \A i \in 1..Len(gs_invocations) : ~gs_invocations[i].ok) =>
          \/ gs_pc = "try"
          \/ gs_pc = "raised" /\ Len(gs_invocations) = 3

(***************************************************************************)
(* StudyPlannerAgent.create_study_plan: the plan is parsed from the text   *)
(* _call_gemini returned, or built by _fallback_plan when _call_gemini     *)
(* raised.  The key "day_<d>" of a plan is the pair <<"day_", d>>; a date  *)
(* is a day number, the clock counts hours.                                *)
(***************************************************************************)

PlanDays == 7

DayKey(d) == <<"day_", d>>

\* datetime.now() as a calendar day
Today(hour) == hour \div HoursPerDay

\* the number of blank-line separated paragraphs of a response text: "plan
\* text A" is a single paragraph, "plan text B" has one paragraph more than
\* the plan has days
ParagraphCount(text) == IF text = "plan text A" THEN 1 ELSE PlanDays + 1

\* gemini_response.split('\n\n')
Split(text) == [k \in 1..ParagraphCount(text) |-> <<text, k>>]

\* _parse_plan(gemini_response)
ParsePlan(gemini_response, hour) ==
    LET paragraphs == Split(gemini_response)
        kept == IF Len(paragraphs) < PlanDays THEN Len(paragraphs) ELSE PlanDays
    IN  [key \in {DayKey(i + 1) : i \in 0..(kept - 1)} |->
            LET i == key[2] - 1
            IN  [content |-> paragraphs[i + 1], date |-> Today(hour) + i]]

\* the round robin started one subject too late
FallbackPlanShifted(profile, hour) ==
    LET subjects == profile.subjects
    IN  [key \in {DayKey(i + 1) : i \in 0..(PlanDays - 1)} |->
            LET i == key[2] - 1
            IN  [subject |-> IF subjects # <<>>
                             THEN subjects[((i + 1) % Len(subjects)) + 1]
                             ELSE "General Study",
                 duration |-> "2 hours",
                 date |-> Today(hour) + i]]

\* _fallback_plan(profile)
FallbackPlan(profile, hour) ==
    LET subjects == profile.subjects
    IN  [key \in {DayKey(i + 1) : i \in 0..(PlanDays - 1)} |->
            LET i == key[2] - 1
            IN  [subject |-> IF subjects # <<>>
                             THEN subjects[(i % Len(subjects)) + 1]
                             ELSE "General Study",
                 duration |-> "2 hours",
                 date |-> Today(hour) + i]]

\* create_study_plan builds the prompt and awaits _call_gemini(prompt)
CreateStudyPlan ==
    /\ sp_pc = "idle"
    /\ cg_pc = "idle"
    /\ sp_pc' = "await"
    /\ cg_pc' = "try"
    /\ attempt' = 0
    /\ UNCHANGED <<student_profile, sp_ret>>
    /\ UNCHANGED <<invocations, sleeps, cg_ret>>
    /\ UNCHANGED <<mock_mode, gs_pc, gs_attempt, gs_invocations, gs_sleeps, gs_ret>>
    /\ UNCHANGED <<analytics, quizgen, session, fanout, insightgen, store, clock>>

\* _call_gemini returned a text: plan = self._parse_plan(response); return plan
PlanParsed ==
    /\ sp_pc = "await"
    /\ cg_pc = "returned"
    /\ sp_ret' = [kind |-> "returned", value |-> ParsePlan(cg_ret.value, now)]
    /\ sp_pc' = "done"
    /\ UNCHANGED student_profile
    /\ UNCHANGED <<analytics, callers, quizgen, session, fanout, insightgen, store, clock>>

\* _call_gemini raised: except Exception: return self._fallback_plan(profile)
PlanFallsBack ==
    /\ sp_pc = "await"
    /\ cg_pc = "raised"
    /\ sp_ret' = [kind |-> "returned", value |-> FallbackPlan(student_profile, now)]
    /\ sp_pc' = "done"
    /\ UNCHANGED student_profile
    /\ UNCHANGED <<analytics, callers, quizgen, session, fanout, insightgen, store, clock>>

(***************************************************************************)
(* Inputs of the planner: a profile with up to MaxSubjects subjects, and   *)
(* the hour at which the plan is made.                                     *)
(***************************************************************************)

MaxSubjects == 3
Subjects == {"Math", "Physics", "Chemistry"}
StudentNames == {"Asha"}
Profiles == [name : StudentNames, subjects : SeqsUpTo(Subjects, MaxSubjects)]
ClockReadings == {0, 30}

InitPlanner ==
    /\ AnalyticsIdle
    /\ CallersIdle
    /\ student_profile \in Profiles
    /\ sp_pc = "idle" /\ sp_ret = [kind |-> "none"]
    /\ quiz_request = [topic |-> "", num_questions |-> 0]
    /\ qg_pc = "idle" /\ qg_invocations = <<>> /\ qg_ret = [kind |-> "none"]
    /\ rs_ret = [kind |-> "none"]
    /\ resource_request = [topic |-> ""]
    /\ rr_ret = [kind |-> "none"] /\ ap_ret = [kind |-> "none"]
    /\ insight_input = [kind |-> "none"]
    /\ fb_mock_mode = TRUE /\ memory_store = <<>> /\ store_log = <<>>
    /\ update_tasks = {}
    /\ now \in ClockReadings /\ earlier_ret = [kind |-> "none"]

NextPlanner ==
    \/ CreateStudyPlan
    \/ AttemptSucceeds
    \/ AttemptFails
    \/ Wake
    \/ PlanParsed
    \/ PlanFallsBack

SpecPlanner == InitPlanner /\ [][NextPlanner]_vars

EveryRetryFailed ==
    /\ Len(invocations) = max_retries
    /\ \A k \in 1..Len(invocations) : ~invocations[k].ok

\* C11: when every retry of the plan generation has failed, create_study_plan
\* does not fail: it returns a plan with exactly the 7 entries day_1..day_7,
\* and for a profile with n >= 1 subjects day i is assigned
\* subjects[(i-1) mod n].
C11_FallbackPlanIsRoundRobin ==
    /\ EveryRetryFailed => sp_pc \in {"await", "done"}
    /\ (EveryRetryFailed /\ sp_pc = "done") =>
          /\ sp_ret.kind = "returned"
          /\ DOMAIN sp_ret.value = {DayKey(d) : d \in 1..7}
          /\ LET n == Len(student_profile.subjects)
             IN  n >= 1 =>
                    \A d \in 1..7 :
                       sp_ret.value[DayKey(d)].subject =
                          student_profile.subjects[((d - 1) % n) + 1]

\* C11 witness: three failed attempts, then the fallback plan of a profile
\* with three subjects: day 4 and day 7 come round to the first subject.
C11_Witness ==
    /\ EveryRetryFailed
    /\ sp_pc = "done"
    /\ student_profile.subjects = <<"Math", "Physics", "Chemistry">>
    /\ sp_ret.kind = "returned"
    /\ sp_ret.value[DayKey(3)].subject = "Chemistry"
    /\ sp_ret.value[DayKey(4)].subject = "Math"
    /\ sp_ret.value[DayKey(7)].subject = "Math"
(***************************************************************************)
(* QuizGeneratorAgent.generate_quiz_from_pdf.  A response text is the      *)
(* sequence of its lines, a line the sequence of its '|'-separated parts.  *)
(***************************************************************************)

QuizLineCap == 10
QuestionParts == 6

\* _parse_questions(gemini_output): the lines of at least 6 parts among the
\* first 10, each with the number of its line as id
ParseQuestions(gemini_output) ==
    LET kept == IF Len(gemini_output) < QuizLineCap
                THEN Len(gemini_output) ELSE QuizLineCap
        wellFormed == SelectSeq([i \in 1..kept |-> i],
                                LAMBDA i : Len(gemini_output[i]) >= QuestionParts)
    IN  [k \in 1..Len(wellFormed) |->
            LET parts == gemini_output[wellFormed[k]]
            IN  [id |-> wellFormed[k],
                 question |-> parts[1],
                 options |-> SubSeq(parts, 2, 5),
                 correct |-> parts[6],
                 difficulty |-> "medium"]]

\* generate_quiz_from_pdf extracts the text, selects the relevant section and
\* awaits _generate_questions, which awaits the one generate_content call
GenerateQuizFromPdf ==
    /\ qg_pc = "idle"
    /\ qg_pc' = "generate"
    /\ UNCHANGED <<quiz_request, qg_invocations, qg_ret>>
    /\ UNCHANGED <<analytics, callers, planner, session, fanout, insightgen, store, clock>>

(***************************************************************************)
(* Inputs of the quiz generator and the texts the model may hand back.     *)
(***************************************************************************)

MaxLines == 3
QuizLines == { <<"Here are your questions:">>,
               <<"What is entropy?", "energy", "disorder", "heat", "work", "B">>,
               <<"What is heat?", "energy in transit", "C">> }
QuizOutputs == SeqsUpTo(QuizLines, MaxLines)
QuizRequests == [topic : {"Thermodynamics", "Optics"}, num_questions : {5, 10}]

\* generate_content hands back a response:
\* questions = self._parse_questions(response.text); return questions
QuestionsGenerated ==
    /\ qg_pc = "generate"
    /\ \E gemini_output \in QuizOutputs :
          /\ qg_invocations' = Append(qg_invocations, Succeeded(gemini_output))
          /\ qg_ret' = [kind |-> "returned", value |-> ParseQuestions(gemini_output)]
    /\ qg_pc' = "done"
    /\ UNCHANGED quiz_request
    /\ UNCHANGED <<analytics, callers, planner, session, fanout, insightgen, store, clock>>

\* generate_content raises: nothing in _generate_questions or in
\* generate_quiz_from_pdf catches it
GenerationRaises ==
    /\ qg_pc = "generate"
    /\ \E error \in Errors :
          /\ qg_invocations' = Append(qg_invocations, Failed(error))
          /\ qg_ret' = [kind |-> "raised", error |-> error]
    /\ qg_pc' = "done"
    /\ UNCHANGED quiz_request
    /\ UNCHANGED <<analytics, callers, planner, session, fanout, insightgen, store, clock>>

InitQuiz ==
    /\ AnalyticsIdle
    /\ CallersIdle
    /\ student_profile = [name |-> "", subjects |-> <<>>]
    /\ sp_pc = "idle" /\ sp_ret = [kind |-> "none"]
    /\ quiz_request \in QuizRequests
    /\ qg_pc = "idle" /\ qg_invocations = <<>> /\ qg_ret = [kind |-> "none"]
    /\ rs_ret = [kind |-> "none"]
    /\ resource_request = [topic |-> ""]
    /\ rr_ret = [kind |-> "none"] /\ ap_ret = [kind |-> "none"]
    /\ insight_input = [kind |-> "none"]
    /\ fb_mock_mode = TRUE /\ memory_store = <<>> /\ store_log = <<>>
    /\ update_tasks = {}
    /\ now = 0 /\ earlier_ret = [kind |-> "none"]

NextQuiz ==
    \/ GenerateQuizFromPdf
    \/ QuestionsGenerated
    \/ GenerationRaises

SpecQuiz == InitQuiz /\ [][NextQuiz]_vars

\* C12: quiz generation goes through the retrying caller, and when the
\* generation call has failed on every attempt generate_quiz_from_pdf still
\* returns a question set: no error escapes it, and it gave up only after
\* max_retries attempts.
C12_QuizFailureYieldsPlaceholder ==
    (qg_pc = "done" /\ \A k \in 1..Len(qg_invocations) : ~qg_invocations[k].ok) =>
        /\ qg_ret.kind = "returned"
        /\ Len(qg_invocations) = max_retries
(***************************************************************************)
(* AgentOrchestrator.run_study_session: the whole of the pipeline run that *)
(* the orchestrator implements.  It awaits nothing and calls no agent.     *)
(***************************************************************************)

\* f"Study plan for {student.name} - Subjects: {', '.join(student.subjects)}"
PlanSummary(student) == <<"Study plan for", student.name, "Subjects:", student.subjects>>

RunStudySession ==
    /\ rs_ret.kind = "none"
    /\ rs_ret' = [kind |-> "returned",
                  value |-> [plan |-> PlanSummary(student_profile),
                             quiz |-> "Quiz questions will be generated",
                             resources |-> "Recommended resources"]]
    /\ UNCHANGED <<analytics, callers, planner, quizgen, fanout, insightgen, store, clock>>

SessionProfiles == [name : {"Asha", "Ravi"}, subjects : SeqsUpTo(Subjects, MaxSubjects)]

InitSession ==
    /\ AnalyticsIdle
    /\ CallersIdle
    /\ student_profile \in SessionProfiles
    /\ sp_pc = "idle" /\ sp_ret = [kind |-> "none"]
    /\ quiz_request = [topic |-> "", num_questions |-> 0]
    /\ qg_pc = "idle" /\ qg_invocations = <<>> /\ qg_ret = [kind |-> "none"]
    /\ rs_ret = [kind |-> "none"]
    /\ resource_request = [topic |-> ""]
    /\ rr_ret = [kind |-> "none"] /\ ap_ret = [kind |-> "none"]
    /\ insight_input = [kind |-> "none"]
    /\ fb_mock_mode = TRUE /\ memory_store = <<>> /\ store_log = <<>>
    /\ update_tasks = {}
    /\ now \in ClockReadings /\ earlier_ret = [kind |-> "none"]

NextSession == RunStudySession

SpecSession == InitSession /\ [][NextSession]_vars

\* C13: a pipeline run in which every call of the text generator raises
\* still returns a result with the four slots plan, quiz, resources and
\* progress_analysis, whose plan is the rule-based fallback plan.  (No run
\* of run_study_session has a call of the text generator that succeeds.)
C13_CompleteResultUnderFailure ==
    rs_ret.kind # "none" =>
        /\ rs_ret.kind = "returned"
        /\ DOMAIN rs_ret.value = {"plan", "quiz", "resources", "progress_analysis"}
        /\ rs_ret.value.plan = FallbackPlan(student_profile, now)
(***************************************************************************)
(* The insight generators: ProgressTrackerAgent._generate_insights and     *)
(* DataProcessingAgent.generate_insights.  A message is its fixed text and *)
(* the values formatted into it; scores are in hundredths of a point.  A   *)
(* dict given to them is a record, an absent key an absent field.          *)
(***************************************************************************)

ExcellentScore == 80
GoodScore == 60
ImprovementBand == 10
ConsistentScore == 70
InconsistentScore == 40
TopGaps == 3

Message(text, args) == [text |-> text, args |-> args]

\* d.get(key, default)
Get(d, key, default) == IF key \in DOMAIN d THEN d[key] ELSE default

PerformanceInsight(avg_score) ==
    IF avg_score >= ExcellentScore * 100
    THEN Message("Excellent performance! Average score:", <<avg_score>>)
    ELSE IF avg_score >= GoodScore * 100
         THEN Message("Good progress, but room for improvement. Average score:",
                      <<avg_score>>)
         ELSE Message("Performance needs attention. Average score:", <<avg_score>>)

ImprovementInsights(improvement) ==
    IF improvement > ImprovementBand * 100
    THEN <<Message("Great improvement trend! from early attempts", <<improvement>>)>>
    ELSE IF improvement < -(ImprovementBand * 100)
         THEN <<Message("Performance declining. Consider reviewing fundamentals.", <<>>)>>
         ELSE <<>>

EngagementInsights(consistency) ==
    IF consistency >= ConsistentScore * 100
    THEN <<Message("Excellent study consistency! Score:", <<consistency>>)>>
    ELSE IF consistency < InconsistentScore * 100
         THEN <<Message("Study consistency needs improvement. Try daily sessions.", <<>>)>>
         ELSE <<>>

\* g['severity'] or g['topic'] of the comprehension raises KeyError
GapLookupRaises(gaps) ==
    \E i \in 1..Len(gaps) :
        \/ "severity" \notin DOMAIN gaps[i]
        \/ (gaps[i].severity = "high" /\ "topic" \notin DOMAIN gaps[i])

\* [g['topic'] for g in gaps if g['severity'] == 'high']
HighPriorityGaps(gaps) ==
    LET high == SelectSeq(gaps, LAMBDA g : g.severity = "high")
    IN  [i \in 1..Len(high) |-> high[i].topic]

\* the slice left out: every high-severity topic is named
FirstTopGapsAll(topics) == topics

\* high_priority_gaps[:3]
FirstTopGaps(topics) ==
    IF Len(topics) <= TopGaps THEN topics ELSE SubSeq(topics, 1, TopGaps)

GapInsights(gaps) ==
    IF gaps # <<>>
    THEN LET high_priority_gaps == HighPriorityGaps(gaps)
         IN  IF high_priority_gaps # <<>>
             THEN <<Message("High priority topics:", FirstTopGaps(high_priority_gaps))>>
             ELSE <<>>
    ELSE <<Message("No major learning gaps identified. Keep up the good work!", <<>>)>>

\* topics that are numbers: hashable, so dict keys like any other, but not
\* str; the topic 5 is written "number 5"
NumberTopics == {"number 5"}

\* ', '.join(high_priority_gaps[:3]) raises TypeError on an item that is not
\* a str
JoinRaises(gaps) ==
    LET joined == FirstTopGaps(HighPriorityGaps(gaps))
    IN  \E i \in 1..Len(joined) : joined[i] \in NumberTopics

\* _generate_insights(performance, engagement, gaps): nothing in it catches
\* the KeyError of the gap comprehension or the TypeError of the join
GenerateInsights(performance, engagement, gaps) ==
    IF GapLookupRaises(gaps)
    THEN [kind |-> "raised", error |-> "KeyError"]
    ELSE IF JoinRaises(gaps)
    THEN [kind |-> "raised", error |-> "TypeError: expected str instance"]
    ELSE [kind |-> "returned",
          value |-> <<PerformanceInsight(Get(performance, "average_score", 0))>>
                    \o ImprovementInsights(Get(performance, "improvement_rate", 0))
                    \o EngagementInsights(Get(engagement, "consistency_score", 0))
                    \o GapInsights(gaps)]
ShortSession == 25
LongSession == 90
LowScore == 60
HighScore == 85
WeakSubjectScore == 65

UnableToGenerate == Message("Unable to generate insights at this time.", <<>>)

\* a dict is the record [items |-> its (key, value) pairs in insertion
\* order]; any other value has no items() and subject_perf.items() raises
ItemsRaises(analysis) ==
    /\ "subject_performance" \in DOMAIN analysis
    /\ "items" \notin DOMAIN analysis.subject_performance

SessionLengthInsights(analysis) ==
    IF "average_session_length" \in DOMAIN analysis
    THEN IF analysis.average_session_length < ShortSession
         THEN <<Message("Consider longer study sessions for better retention.", <<>>)>>
         ELSE IF analysis.average_session_length > LongSession
              THEN <<Message("Take breaks to avoid fatigue during long sessions.", <<>>)>>
              ELSE <<>>
    ELSE <<>>

ScoreInsights(analysis) ==
    IF "average_score" \in DOMAIN analysis
    THEN IF analysis.average_score < LowScore * 100
         THEN <<Message("Focus on foundational concepts to improve scores.", <<>>)>>
         ELSE IF analysis.average_score > HighScore * 100
              THEN <<Message("Great performance! Consider advanced topics.", <<>>)>>
              ELSE <<>>
    ELSE <<>>

SubjectInsights(analysis) ==
    IF "subject_performance" \in DOMAIN analysis
    THEN LET weak == SelectSeq(analysis.subject_performance.items,
                               LAMBDA item : item.score < WeakSubjectScore * 100)
             weak_subjects == [i \in 1..Len(weak) |-> weak[i].subject]
         IN  IF weak_subjects # <<>>
             THEN <<Message("Need improvement in:", weak_subjects)>>
             ELSE <<>>
    ELSE <<>>

\* DataProcessingAgent.generate_insights(analysis): whatever is raised inside
\* the try is answered by the one generic message
DPGenerateInsights(analysis) ==
    IF ItemsRaises(analysis)
    THEN <<UnableToGenerate>>
    ELSE SessionLengthInsights(analysis) \o ScoreInsights(analysis)
         \o SubjectInsights(analysis)

(***************************************************************************)
(* Inputs of the insight generators.  The gaps are up to MaxGaps entries   *)
(* on distinct topics, as _identify_learning_gaps produces them, some of   *)
(* them without the severity key.                                          *)
(***************************************************************************)

MaxGaps == 4
GapTopics == {"Algebra", "Optics", "Acids", "Cells"}
GapRecords == [topic : GapTopics, severity : {"high", "medium", "low"}]
               \cup [topic : GapTopics]

RECURSIVE DistinctTopicSeqs(_, _)
\* the sequences of up to n records of S on pairwise different topics
DistinctTopicSeqs(S, n) ==
    IF n = 0 THEN {<<>>}
    ELSE LET shorter == DistinctTopicSeqs(S, n - 1)
             longest == {q \in shorter : Len(q) = n - 1}
         IN  shorter \cup
             UNION {{Append(q, g) :
                       g \in {h \in S : \A i \in 1..Len(q) : q[i].topic # h.topic}} :
                    q \in longest}

Performances == { [average_score |-> 8500, improvement_rate |-> 1500],
                  [average_score |-> 6500, improvement_rate |-> 0],
                  [average_score |-> 4000, improvement_rate |-> -2000],
                  [total_quizzes |-> 0] }
Engagements == { [consistency_score |-> 8000], [consistency_score |-> 3000] }

SubjectPerformances ==
    { [items |-> <<>>],
      [items |-> <<[subject |-> "Math", score |-> 5000],
                   [subject |-> "Physics", score |-> 9000]>>],
      [elements |-> <<5000>>] }

Analyses ==
    [average_session_length : {20, 60, 120}, average_score : {5000, 7000, 9000},
     subject_performance : SubjectPerformances]
    \cup [average_score : {5000, 7000, 9000}]

InsightInputs ==
    [kind : {"tracker"}, performance : Performances, engagement : Engagements,
     gaps : DistinctTopicSeqs(GapRecords, MaxGaps)]
    \cup [kind : {"processing"}, analysis : Analyses]

InitInsights ==
    /\ AnalyticsIdle
    /\ CallersIdle
    /\ student_profile = [name |-> "", subjects |-> <<>>]
    /\ sp_pc = "idle" /\ sp_ret = [kind |-> "none"]
    /\ quiz_request = [topic |-> "", num_questions |-> 0]
    /\ qg_pc = "idle" /\ qg_invocations = <<>> /\ qg_ret = [kind |-> "none"]
    /\ rs_ret = [kind |-> "none"]
    /\ resource_request = [topic |-> ""]
    /\ rr_ret = [kind |-> "none"] /\ ap_ret = [kind |-> "none"]
    /\ insight_input \in InsightInputs
    /\ fb_mock_mode = TRUE /\ memory_store = <<>> /\ store_log = <<>>
    /\ update_tasks = {}
    /\ now = 0 /\ earlier_ret = [kind |-> "none"]

CallGenerateInsights ==
    /\ op = "none"
    /\ insight_input.kind = "tracker"
    /\ op' = "generate_insights"
    /\ ret' = GenerateInsights(insight_input.performance, insight_input.engagement,
                               insight_input.gaps)
    /\ UNCHANGED <<quiz_history, study_sessions, time_series_data, callers, others>>

CallDPGenerateInsights ==
    /\ op = "none"
    /\ insight_input.kind = "processing"
    /\ op' = "dp_generate_insights"
    /\ ret' = [kind |-> "returned", value |-> DPGenerateInsights(insight_input.analysis)]
    /\ UNCHANGED <<quiz_history, study_sessions, time_series_data, callers, others>>

NextInsights ==
    \/ CallGenerateInsights
    \/ CallDPGenerateInsights

SpecInsights == InitInsights /\ [][NextInsights]_vars

InsightsCalled == op \in {"generate_insights", "dp_generate_insights"}

\* a step of the called generator fails on its input
InsightStepFails ==
    \/ (insight_input.kind = "tracker" /\ \E i \in 1..Len(insight_input.gaps) :
            "severity" \notin DOMAIN insight_input.gaps[i])
    \/ (insight_input.kind = "processing"
        /\ "subject_performance" \in DOMAIN insight_input.analysis
        /\ "items" \notin DOMAIN insight_input.analysis.subject_performance)

\* C15: if a step inside the insight generator fails, the generator does not
\* propagate the error: it returns the list whose only element is the generic
\* 'unable to generate insights' message.
C15_FailureYieldsGenericMessage ==
    (InsightsCalled /\ InsightStepFails) =>
        /\ ret.kind = "returned"
        /\ Len(ret.value) = 1
        /\ ret.value[1].text = "Unable to generate insights at this time."

HighTopicsOf(gaps) ==
    LET high == SelectSeq(gaps, LAMBDA g : g.severity = "high")
    IN  [i \in 1..Len(high) |-> high[i].topic]

MessagesWithText(messages, text) == SelectSeq(messages, LAMBDA m : m.text = text)

\* C16: rule 4 of _generate_insights.  With at least one high gap exactly one
\* message names the first min(3, number of high gaps) high topics in the
\* order of the gap list, and there is no 'no major gaps' message; for the
\* empty gap list there is exactly the 'no major gaps' message; for a
\* non-empty list without a high gap there is neither.
C16_GapRule ==
    (op = "generate_insights" /\ ret.kind = "returned") =>
        LET gaps == insight_input.gaps
            high == HighTopicsOf(gaps)
            named == MessagesWithText(ret.value, "High priority topics:")
            none == MessagesWithText(ret.value,
                        "No major learning gaps identified. Keep up the good work!")
            k == IF Len(high) < 3 THEN Len(high) ELSE 3
        IN  /\ high # <<>> =>
                  /\ Len(named) = 1 /\ none = <<>>
                  /\ Len(named[1].args) = k
                  /\ \A i \in 1..k : named[1].args[i] = high[i]
            /\ gaps = <<>> => (Len(none) = 1 /\ named = <<>>)
            /\ (gaps # <<>> /\ high = <<>>) => (named = <<>> /\ none = <<>>)

\* C16 witness: four gaps, all high: the message names the first three.
C16_Witness ==
    /\ op = "generate_insights" /\ ret.kind = "returned"
    /\ Len(insight_input.gaps) = 4
    /\ \A i \in 1..4 : insight_input.gaps[i].severity = "high"
    /\ \E j \in 1..Len(ret.value) :
          /\ ret.value[j].text = "High priority topics:"
          /\ ret.value[j].args = <<insight_input.gaps[1].topic,
                                   insight_input.gaps[2].topic,
                                   insight_input.gaps[3].topic>>
(***************************************************************************)
(* ResourceRecommenderAgent.recommend_resources and                        *)
(* ProgressTrackerAgent.analyze_progress, the two branches that follow the *)
(* quiz.  Each has its whole body inside try / except Exception.  A list   *)
(* argument is the record [list |-> its elements], an argument of another  *)
(* type a record without that field; an omitted argument is an absent      *)
(* field.  A session whose date is no ISO date carries date_text in place  *)
(* of date; a session without either has no 'date' key.                    *)
(***************************************************************************)

TopPerType == 3

DefaultResourceTypes == <<"video", "article", "practice">>
PriorityOrder == <<"video", "interactive", "article", "practice">>

\* "video" in resource_types raises TypeError
MembershipRaises(request) ==
    /\ "resource_types" \in DOMAIN request
    /\ "list" \notin DOMAIN request.resource_types

\* len(self._generate_mock_results(resource_type, query))
MockResultCount(resource_type) == IF resource_type = "interactive" THEN 0 ELSE 2

\* _curate_resources: the first 3 results of every searched type in priority
\* order, then the stable sort by relevance_score (1.0 - idx * 0.1, in
\* hundredths), highest first
CurateResources(searched) ==
    LET types == SelectSeq(PriorityOrder, LAMBDA t : t \in searched)
        Ranked(idx) ==
            LET having == SelectSeq(types, LAMBDA t :
                              idx < MockResultCount(t) /\ idx < TopPerType)
            IN  [k \in 1..Len(having) |->
                    [type |-> having[k], result |-> idx + 1,
                     relevance_score |-> 100 - idx * 10]]
    IN  Ranked(0) \o Ranked(1) \o Ranked(2)

\* the dict returned by the except clause of recommend_resources, without
\* its error
RecommendFailedSilently(session_id, request, error) ==
    [session_id |-> session_id, topic |-> request.topic, resources |-> <<>>,
     agent |-> "Resource Recommender"]

\* the dict returned by the except clause of recommend_resources
RecommendFailed(session_id, request, error) ==
    [session_id |-> session_id, topic |-> request.topic, error |-> error,
     resources |-> <<>>, agent |-> "Resource Recommender"]

RecommendResources(session_id, request) ==
    IF MembershipRaises(request)
    THEN RecommendFailed(session_id, request, "TypeError")
    ELSE LET resource_types == IF "resource_types" \in DOMAIN request
                               THEN request.resource_types.list
                               ELSE DefaultResourceTypes
             searched == {resource_types[i] : i \in 1..Len(resource_types)}
             curated_resources == CurateResources(searched)
         IN  [session_id |-> session_id, topic |-> request.topic,
              learning_level |-> Get(request, "learning_level", "beginner"),
              resources |-> curated_resources,
              total_found |-> Len(curated_resources),
              agent |-> "Resource Recommender"]

\* s.get('date', datetime.now().isoformat()) for every session
WithDefaultDates(sessions, hour) ==
    [i \in 1..Len(sessions) |->
        IF "date" \in DOMAIN sessions[i] THEN sessions[i]
        ELSE [date |-> hour, duration |-> sessions[i].duration]]

\* datetime.fromisoformat raises ValueError
FromIsoFormatRaises(sessions) ==
    \E i \in 1..Len(sessions) : "date_text" \in DOMAIN sessions[i]

\* _calculate_engagement_metrics called at the given hour
CalculateEngagementMetricsAt(sessions, hour) ==
    CalculateEngagementMetrics(WithDefaultDates(sessions, hour))

\* sum(scores) raises TypeError on a score that is a str
SumRaises(qh) ==
    \E i \in 1..Len(qh) : "score_text" \in DOMAIN qh[i]

\* topic not in topic_performance raises TypeError on a topic that is a list
HashRaises(qh) ==
    \E i \in 1..Len(qh) : "topic_list" \in DOMAIN qh[i]

\* the dict returned by the except clause of analyze_progress, without its
\* error
AnalysisFailedSilently(session_id, error) ==
    [session_id |-> session_id, agent |-> "Progress Tracker"]

\* the dict returned by the except clause of analyze_progress
AnalysisFailed(session_id, error) ==
    [session_id |-> session_id, error |-> error, agent |-> "Progress Tracker"]

AnalyzeProgress(session_id, user_data, hour) ==
    IF SumRaises(user_data.quiz_history)
    THEN AnalysisFailed(session_id, "TypeError: unsupported operand type(s)")
    ELSE
    LET performance_metrics == CalculatePerformanceMetrics(user_data.quiz_history)
    IN  IF FromIsoFormatRaises(user_data.study_sessions)
        THEN AnalysisFailed(session_id, "ValueError")
        ELSE IF HashRaises(user_data.quiz_history)
        THEN AnalysisFailed(session_id, "TypeError: unhashable type")
        ELSE LET engagement_metrics ==
                     CalculateEngagementMetricsAt(user_data.study_sessions, hour)
                 learning_gaps == IdentifyLearningGaps(user_data.quiz_history)
                 insights == GenerateInsights(performance_metrics, engagement_metrics,
                                              learning_gaps)
             IN  IF insights.kind = "raised"
                 THEN AnalysisFailed(session_id, insights.error)
                 ELSE [session_id |-> session_id, timestamp |-> hour,
                       performance_metrics |-> performance_metrics,
                       engagement_metrics |-> engagement_metrics,
                       learning_gaps |-> learning_gaps,
                       insights |-> insights.value,
                       agent |-> "Progress Tracker"]
(***************************************************************************)
(* The two branches as tasks of one event loop.  Neither contains an await *)
(* that suspends (_execute_searches awaits nothing), so each runs to its   *)
(* return in one step, in either order.                                    *)
(***************************************************************************)

MaxBranchItems == 2
BranchAttempts == [topic : {"Math"}, score : {30000, 90000}]
BranchSessions == { [date |-> 0, duration |-> 45],
                    [date_text |-> "yesterday", duration |-> 45],
                    [duration |-> 45] }
ResourceRequests ==
    [topic : {"Optics"}]
    \cup [topic : {"Optics"}, learning_level : {"advanced"},
          resource_types : { [list |-> <<"video">>],
                             [list |-> <<"practice", "interactive", "article">>],
                             [number |-> 5] }]

InitBranches ==
    /\ op = "none"
    /\ quiz_history \in SeqsUpTo(BranchAttempts, MaxBranchItems)
    /\ study_sessions \in SeqsUpTo(BranchSessions, MaxBranchItems)
    /\ time_series_data = <<>>
    /\ ret = [kind |-> "none"]
    /\ CallersIdle
    /\ student_profile = [name |-> "", subjects |-> <<>>]
    /\ sp_pc = "idle" /\ sp_ret = [kind |-> "none"]
    /\ quiz_request = [topic |-> "", num_questions |-> 0]
    /\ qg_pc = "idle" /\ qg_invocations = <<>> /\ qg_ret = [kind |-> "none"]
    /\ rs_ret = [kind |-> "none"]
    /\ resource_request \in ResourceRequests
    /\ rr_ret = [kind |-> "none"] /\ ap_ret = [kind |-> "none"]
    /\ insight_input = [kind |-> "none"]
    /\ fb_mock_mode = TRUE /\ memory_store = <<>> /\ store_log = <<>>
    /\ update_tasks = {}
    /\ now \in ClockReadings /\ earlier_ret = [kind |-> "none"]

\* the task of recommend_resources(session_id, topic, learning_level,
\* resource_types) runs
RecommendResourcesRuns ==
    /\ rr_ret.kind = "none"
    /\ rr_ret' = [kind |-> "returned",
                  value |-> RecommendResources("s1", resource_request)]
    /\ UNCHANGED <<resource_request, ap_ret>>
    /\ UNCHANGED <<analytics, callers, planner, quizgen, session, insightgen, store, clock>>

\* the task of analyze_progress(session_id, user_data) runs
AnalyzeProgressRuns ==
    /\ ap_ret.kind = "none"
    /\ ap_ret' = [kind |-> "returned",
                  value |-> AnalyzeProgress("s1",
                               [quiz_history |-> quiz_history,
                                study_sessions |-> study_sessions], now)]
    /\ UNCHANGED <<resource_request, rr_ret>>
    /\ UNCHANGED <<analytics, callers, planner, quizgen, session, insightgen, store, clock>>

NextBranches ==
    \/ RecommendResourcesRuns
    \/ AnalyzeProgressRuns

SpecBranches == InitBranches /\ [][NextBranches]_vars

\* the request makes a step of recommend_resources fail
RequestFails ==
    /\ "resource_types" \in DOMAIN resource_request
    /\ "list" \notin DOMAIN resource_request.resource_types

\* the user data make a step of analyze_progress fail
UserDataFail ==
    \E i \in 1..Len(study_sessions) : "date_text" \in DOMAIN study_sessions[i]

\* C14: neither branch ever raises; a branch whose own input makes it fail
\* returns a result carrying an error, and a branch whose own input is sound
\* returns its full result without an error whatever became of its sibling:
\* the analysis still covers every quiz, the recommendation still counts its
\* resources.
C14_BranchesFailIndependently ==
    /\ rr_ret.kind \in {"none", "returned"}
    /\ ap_ret.kind \in {"none", "returned"}
    /\ rr_ret.kind = "returned" =>
          /\ RequestFails <=> "error" \in DOMAIN rr_ret.value
          /\ ~RequestFails =>
                /\ "total_found" \in DOMAIN rr_ret.value
                /\ rr_ret.value.total_found = Len(rr_ret.value.resources)
                /\ ("resource_types" \notin DOMAIN resource_request
                        => rr_ret.value.total_found = 6)
    /\ ap_ret.kind = "returned" =>
          /\ UserDataFail <=> "error" \in DOMAIN ap_ret.value
          /\ ~UserDataFail =>
                /\ {"performance_metrics", "engagement_metrics", "learning_gaps",
                    "insights"} \subseteq DOMAIN ap_ret.value
                /\ ap_ret.value.performance_metrics.total_quizzes = Len(quiz_history)
                /\ ap_ret.value.insights # <<>>

\* C14 witness: the recommender failed on its request and reported the error
\* in its own result, and the analysis of two quizzes is complete.
C14_Witness ==
    /\ rr_ret.kind = "returned" /\ ap_ret.kind = "returned"
    /\ RequestFails
    /\ rr_ret.value.error = "TypeError" /\ rr_ret.value.resources = <<>>
    /\ ~UserDataFail
    /\ Len(quiz_history) = 2
    /\ ap_ret.value.performance_metrics.total_quizzes = 2
    /\ "error" \notin DOMAIN ap_ret.value
(***************************************************************************)
(* FirebaseService: the session store.  A dict is a function from its keys *)
(* to their values.  A session id is the triple of the text "session", the *)
(* user id and the whole second of the clock.  No coroutine of the store   *)
(* contains an await, so every call runs from entry to return in one step  *)
(* of the event loop; calls made concurrently are tasks that the loop runs *)
(* one at a time.                                                          *)
(***************************************************************************)

\* f"session_{user_id}_{int(datetime.now().timestamp())}"
SessionId(user_id, second) == <<"session", user_id, second>>

\* d[key] = value
Put(d, key, value) ==
    [k \in DOMAIN d \cup {key} |-> IF k = key THEN value ELSE d[k]]

\* the data replaced by the updates instead of merged with them
DictUpdateReplaces(d, updates) == updates

\* d.update(updates)
DictUpdate(d, updates) ==
    [k \in DOMAIN d \cup DOMAIN updates |->
        IF k \in DOMAIN updates THEN updates[k] ELSE d[k]]

MaxStoreSteps == 3
UserIds == {"u1", "u2"}
SessionData == { [plan |-> 0] }
Updates == { [plan |-> 1], [quiz |-> 1], [plan |-> 2, quiz |-> 2] }

Creates == SelectSeq(store_log, LAMBDA e : e.call = "create_session")
UpdatesDone == SelectSeq(store_log, LAMBDA e : e.call = "update_session")

\* the calls made and the seconds passed so far
StoreSteps == Len(store_log) + Cardinality(update_tasks) + now

\* a second of the clock passes
Tick ==
    /\ StoreSteps < MaxStoreSteps
    /\ now' = now + 1
    /\ UNCHANGED earlier_ret
    /\ UNCHANGED <<analytics, callers, planner, quizgen, session, fanout, insightgen, store>>

\* create_session(user_id, session_data)
CreateSession ==
    /\ StoreSteps < MaxStoreSteps
    /\ \E user_id \in UserIds, session_data \in SessionData :
          LET session_id == SessionId(user_id, now)
              new_session == [session_id |-> session_id, user_id |-> user_id,
                              created_at |-> now, updated_at |-> now,
                              data |-> session_data]
          IN  /\ memory_store' = IF fb_mock_mode
                                 THEN Put(memory_store, session_id, new_session)
                                 ELSE memory_store
              /\ store_log' = Append(store_log,
                                 [call |-> "create_session", session_id |-> session_id,
                                  data |-> session_data])
    /\ UNCHANGED <<fb_mock_mode, update_tasks>>
    /\ UNCHANGED <<analytics, callers, planner, quizgen, session, fanout, insightgen, clock>>

\* get_session(session_id): self.memory_store.get(session_id) in the
\* in-memory store, None (the branch is a pass) with credentials
GetSession ==
    /\ StoreSteps < MaxStoreSteps
    /\ \E user_id \in UserIds, second \in 0..now :
          LET session_id == SessionId(user_id, second)
          IN  store_log' = Append(store_log,
                  [call |-> "get_session", session_id |-> session_id,
                   result |-> IF fb_mock_mode /\ session_id \in DOMAIN memory_store
                              THEN [kind |-> "session",
                                    value |-> memory_store[session_id]]
                              ELSE [kind |-> "None"]])
    /\ UNCHANGED <<fb_mock_mode, memory_store, update_tasks>>
    /\ UNCHANGED <<analytics, callers, planner, quizgen, session, fanout, insightgen, clock>>

\* a caller starts update_session(session_id, updates) as a task
ScheduleUpdate ==
    /\ StoreSteps < MaxStoreSteps
    /\ \E user_id \in UserIds, second \in 0..now, updates \in Updates :
          update_tasks' = update_tasks \cup
              {[task |-> Cardinality(update_tasks) + Len(UpdatesDone) + 1,
                session_id |-> SessionId(user_id, second), updates |-> updates]}
    /\ UNCHANGED <<fb_mock_mode, memory_store, store_log>>
    /\ UNCHANGED <<analytics, callers, planner, quizgen, session, fanout, insightgen, clock>>

\* the loop runs one of the pending update_session tasks to its return
UpdateSessionRuns ==
    /\ \E t \in update_tasks :
          /\ update_tasks' = update_tasks \ {t}
          /\ IF fb_mock_mode
             THEN IF t.session_id \in DOMAIN memory_store
                  THEN LET old == memory_store[t.session_id]
                       IN  /\ memory_store' =
                                 Put(memory_store, t.session_id,
                                     [old EXCEPT !.data = DictUpdate(old.data, t.updates),
                                                 !.updated_at = now])
                           /\ store_log' = Append(store_log,
                                 [call |-> "update_session", task |-> t.task,
                                  session_id |-> t.session_id,
                                  updates |-> t.updates, result |-> "True"])
                  ELSE /\ store_log' = Append(store_log,
                                 [call |-> "update_session", task |-> t.task,
                                  session_id |-> t.session_id,
                                  updates |-> t.updates, result |-> "False"])
                       /\ UNCHANGED memory_store
             ELSE /\ store_log' = Append(store_log,
                                 [call |-> "update_session", task |-> t.task,
                                  session_id |-> t.session_id,
                                  updates |-> t.updates, result |-> "None"])
                  /\ UNCHANGED memory_store
    /\ UNCHANGED fb_mock_mode
    /\ UNCHANGED <<analytics, callers, planner, quizgen, session, fanout, insightgen, clock>>

InitStore ==
    /\ AnalyticsIdle
    /\ CallersIdle
    /\ student_profile = [name |-> "", subjects |-> <<>>]
    /\ sp_pc = "idle" /\ sp_ret = [kind |-> "none"]
    /\ quiz_request = [topic |-> "", num_questions |-> 0]
    /\ qg_pc = "idle" /\ qg_invocations = <<>> /\ qg_ret = [kind |-> "none"]
    /\ rs_ret = [kind |-> "none"]
    /\ resource_request = [topic |-> ""]
    /\ rr_ret = [kind |-> "none"] /\ ap_ret = [kind |-> "none"]
    /\ insight_input = [kind |-> "none"]
    /\ fb_mock_mode \in BOOLEAN
    /\ memory_store = <<>> /\ store_log = <<>>
    /\ update_tasks = {}
    /\ now = 0 /\ earlier_ret = [kind |-> "none"]

NextStore ==
    \/ Tick
    \/ CreateSession
    \/ GetSession
    \/ ScheduleUpdate
    \/ UpdateSessionRuns

SpecStore == InitStore /\ [][NextStore]_vars
\* C17: the registry is append-only.  In the in-memory store, after any
\* sequence of create_session calls every call has added an entry under an
\* id no earlier call used: the ids handed out are pairwise different, each
\* is a key of the store, and the store has one entry per call.
C17_RegistryAppendOnly ==
    fb_mock_mode =>
        /\ \A i, j \in 1..Len(Creates) :
              i # j => Creates[i].session_id # Creates[j].session_id
        /\ \A i \in 1..Len(Creates) : Creates[i].session_id \in DOMAIN memory_store
        /\ Cardinality(DOMAIN memory_store) = Len(Creates)

\* the position in the log of the call that last created the session
LastCreate(session_id) ==
    CHOOSE i \in 1..Len(store_log) :
        /\ store_log[i].call = "create_session"
        /\ store_log[i].session_id = session_id
        /\ \A j \in (i + 1)..Len(store_log) :
              ~(store_log[j].call = "create_session"
                /\ store_log[j].session_id = session_id)

\* the updates of the session that ran after that position, in the order
\* in which they ran
UpdatesSince(session_id, i) ==
    LET later == SelectSeq([j \in 1..(Len(store_log) - i) |-> store_log[i + j]],
                           LAMBDA e : e.call = "update_session"
                                      /\ e.session_id = session_id)
    IN  [k \in 1..Len(later) |-> later[k].updates]

\* one update laid over a record: the update's fields win, the others stay
Overlay(d, u) ==
    [k \in DOMAIN d \cup DOMAIN u |-> IF k \in DOMAIN u THEN u[k] ELSE d[k]]

RECURSIVE OneAfterAnother(_, _)
OneAfterAnother(d, updates) ==
    IF updates = <<>> THEN d
    ELSE OneAfterAnother(Overlay(d, updates[1]), Tail(updates))

\* C18: update_session calls made concurrently on one session are
\* serialized.  Whatever order the loop runs the pending calls in, the data
\* of every stored session are the data it was created with, with the
\* updates that ran on it applied one after another in the order they ran
\* (last writer wins per field), and every one of those calls returned True:
\* no update is lost.
C18_UpdatesAreSerialized ==
    fb_mock_mode =>
        /\ \A session_id \in DOMAIN memory_store :
              LET i == LastCreate(session_id)
              IN  memory_store[session_id].data =
                      OneAfterAnother(store_log[i].data, UpdatesSince(session_id, i))
        /\ \A j \in 1..Len(store_log) :
              (store_log[j].call = "update_session"
               /\ \E i \in 1..(j - 1) :
                     /\ store_log[i].call = "create_session"
                     /\ store_log[i].session_id = store_log[j].session_id)
                  => store_log[j].result = "True"

\* C18 witness: two updates of one session were pending together and the
\* loop ran the later-made call first; both are in the record, the field
\* they both write holding the value of the call that ran last.
C18_Witness ==
    /\ fb_mock_mode
    /\ Len(store_log) = 3
    /\ store_log[1].call = "create_session"
    /\ store_log[2].call = "update_session" /\ store_log[2].task = 2
    /\ store_log[2].updates = [plan |-> 2, quiz |-> 2]
    /\ store_log[3].call = "update_session" /\ store_log[3].task = 1
    /\ store_log[3].updates = [plan |-> 1]
    /\ store_log[2].session_id = store_log[1].session_id
    /\ store_log[3].session_id = store_log[1].session_id
    /\ memory_store[store_log[1].session_id].data = [plan |-> 1, quiz |-> 2]
(***************************************************************************)
(* One metrics operation called twice on the same collection, with time    *)
(* passing between the calls.  _calculate_performance_metrics reads no     *)
(* clock; _calculate_engagement_metrics reads datetime.now() for every     *)
(* session without a 'date' key.                                           *)
(***************************************************************************)

DatedOrNot == { [date |-> 0, duration |-> 45], [duration |-> 45] }
HoursBetweenCalls == {1, 240}

MetricsAt(operation, hour) ==
    IF operation = "calculate_performance_metrics"
    THEN CalculatePerformanceMetrics(quiz_history)
    ELSE CalculateEngagementMetricsAt(study_sessions, hour)

InitTwice ==
    /\ op = "none"
    /\ quiz_history \in SeqsUpTo(BranchAttempts, MaxBranchItems)
    /\ study_sessions \in SeqsUpTo(DatedOrNot, MaxBranchItems)
    /\ time_series_data = <<>>
    /\ ret = [kind |-> "none"]
    /\ CallersIdle
    /\ OthersIdle

\* the earlier call
CallMetricsEarlier ==
    /\ earlier_ret.kind = "none"
    /\ \E operation \in {"calculate_performance_metrics",
                         "calculate_engagement_metrics"} :
          earlier_ret' = [kind |-> "returned", op |-> operation,
                          value |-> MetricsAt(operation, now)]
    /\ UNCHANGED now
    /\ UNCHANGED <<analytics, callers, planner, quizgen, session, fanout, insightgen, store>>

\* time passes between the two calls
HoursPass ==
    /\ earlier_ret.kind = "returned"
    /\ op = "none"
    /\ now = 0
    /\ \E hours \in HoursBetweenCalls : now' = now + hours
    /\ UNCHANGED earlier_ret
    /\ UNCHANGED <<analytics, callers, planner, quizgen, session, fanout, insightgen, store>>

\* the same operation called again on the same collection
CallMetricsAgain ==
    /\ earlier_ret.kind = "returned"
    /\ op = "none"
    /\ op' = earlier_ret.op
    /\ ret' = [kind |-> "returned", value |-> MetricsAt(earlier_ret.op, now)]
    /\ UNCHANGED <<quiz_history, study_sessions, time_series_data, callers, others>>

NextTwice ==
    \/ CallMetricsEarlier
    \/ HoursPass
    \/ CallMetricsAgain

SpecTwice == InitTwice /\ [][NextTwice]_vars

\* C19: the performance metrics and the engagement metrics are pure functions
\* of their input collection: a second call on the same collection returns
\* what the first returned, however much time has passed, also when sessions
\* carry no date.
C19_SameInputSameOutput ==
    (op # "none" /\ earlier_ret.kind = "returned") => ret.value = earlier_ret.value
PerformanceFields ==
    {"average_score", "total_quizzes", "improvement_rate", "highest_score",
     "lowest_score"}

\* C20: on the empty attempt collection the performance metrics are returned
\* as a record, not an error, that has every field of the metrics of a
\* non-empty collection (average_score, total_quizzes, improvement_rate,
\* highest_score, lowest_score), each of them zero.
C20_EmptyYieldsAllZeroRecord ==
    ((PerfReturned \/ DPPerfReturned) /\ quiz_history = <<>>) =>
        /\ "error" \notin DOMAIN ret.value
        /\ PerformanceFields \subseteq DOMAIN ret.value
        /\ \A field \in PerformanceFields \cap DOMAIN ret.value : ret.value[field] = 0
\* the totals of the first 3 and of the last 3 scores of quiz_history, in
\* input order
EarlyTotal == TotalOver(1..3)
RecentTotal == TotalOver((Len(quiz_history) - 2)..Len(quiz_history))

\* the change of the total and the early total in lowest terms
ChangeInLowestTerms ==
    LET g == GCD(Abs(RecentTotal - EarlyTotal), EarlyTotal)
    IN  [change |-> (RecentTotal - EarlyTotal) \div g, early |-> EarlyTotal \div g]

\* C21 (as claimed): for at least 3 attempts improvement_rate equals
\* (mean of the last 3 - mean of the first 3) / (mean of the first 3) * 100,
\* and 0 when the mean of the first 3 is 0.  improvement_rate is in
\* hundredths of a percent.
C21_ImprovementIsExactRatio ==
    (PerfReturned /\ Len(quiz_history) >= 3) =>
        IF EarlyTotal = 0 THEN ret.value.improvement_rate = 0
        ELSE ret.value.improvement_rate * ChangeInLowestTerms.early
                 = ChangeInLowestTerms.change * 100 * 100

\* C21 (amended): for at least 3 attempts improvement_rate is that quotient
\* rounded to 2 decimal places (within half a hundredth of it), taken over
\* the attempts in input order, and 0 when the mean of the first 3 is 0.
C21_ImprovementIsRoundedRatio ==
    (PerfReturned /\ Len(quiz_history) >= 3) =>
        IF EarlyTotal = 0 THEN ret.value.improvement_rate = 0
        ELSE 2 * Abs(ret.value.improvement_rate * ChangeInLowestTerms.early
                     - ChangeInLowestTerms.change * 100 * 100)
                 <= ChangeInLowestTerms.early

\* C21 witness: scores 0, 40, 70, 70, 70: the first three total 110, the
\* last three 210, and 100 / 110 * 100 = 90.909... is reported as 90.91.
C21_Witness ==
    /\ PerfReturned
    /\ Scores(quiz_history) = <<0, 40000, 70000, 70000, 70000>>
    /\ ret.value.improvement_rate = 9091
(***************************************************************************)
(* analyze_progress over user data that make each of its steps fail: a    *)
(* score that is a str fails the performance metrics, a date that is not  *)
(* ISO text the engagement metrics, a topic that is a list the gap        *)
(* analysis, and a high-severity topic that is a number the insights.     *)
(***************************************************************************)

AnalysisAttempts ==
    [topic : {"Math"}, score : {30000, 90000}]
    \cup [topic : NumberTopics, score : {30000, 90000}]
    \cup {[topic |-> "Math", score_text |-> "85"],
          [topic_list |-> <<"Math">>, score |-> 30000]}

InitAnalysis ==
    /\ op = "none"
    /\ quiz_history \in SeqsUpTo(AnalysisAttempts, MaxBranchItems)
    /\ study_sessions \in SeqsUpTo(BranchSessions, MaxBranchItems)
    /\ time_series_data = <<>>
    /\ ret = [kind |-> "none"]
    /\ CallersIdle
    /\ OthersIdle

NextAnalysis == AnalyzeProgressRuns

SpecAnalysis == InitAnalysis /\ [][NextAnalysis]_vars

\* the indexes of the attempts on a topic that is a number, and whether one
\* such topic has a mean below 40
AttemptsOnNumber(n) ==
    {i \in 1..Len(quiz_history) :
        "topic" \in DOMAIN quiz_history[i] /\ quiz_history[i].topic = n}

NumberTopicIsHigh ==
    \E n \in NumberTopics :
        /\ AttemptsOnNumber(n) # {}
        /\ TotalOver(AttemptsOnNumber(n))
               < HighThreshold * PointScale * Cardinality(AttemptsOnNumber(n))

\* the first step of the fixed order that fails on the user data
FirstFailure ==
    IF \E i \in 1..Len(quiz_history) : "score_text" \in DOMAIN quiz_history[i]
    THEN "TypeError: unsupported operand type(s)"
    ELSE IF \E i \in 1..Len(study_sessions) : "date_text" \in DOMAIN study_sessions[i]
    THEN "ValueError"
    ELSE IF \E i \in 1..Len(quiz_history) : "topic_list" \in DOMAIN quiz_history[i]
    THEN "TypeError: unhashable type"
    ELSE IF NumberTopicIsHigh
    THEN "TypeError: expected str instance"
    ELSE "none"

\* C22: analyze_progress never raises.  When a step fails, the result is
\* {session_id, error, agent} whose error is the message of the first step
\* to fail in the order performance metrics, engagement metrics, gap
\* analysis, insights; when none fails, the result carries the metrics, the
\* gaps and the insights and no error.
C22_StepsInOrderFailuresCaught ==
    /\ ap_ret.kind \in {"none", "returned"}
    /\ ap_ret.kind = "returned" =>
          IF FirstFailure # "none"
          THEN /\ DOMAIN ap_ret.value = {"session_id", "error", "agent"}
               /\ ap_ret.value.error = FirstFailure
          ELSE DOMAIN ap_ret.value =
                   {"session_id", "timestamp", "performance_metrics",
                    "engagement_metrics", "learning_gaps", "insights", "agent"}

\* C22 witness: a date that is not ISO text and a topic that is a list:
\* the engagement metrics fail before the gap analysis is reached
C22_Witness ==
    /\ ap_ret.kind = "returned"
    /\ \E i \in 1..Len(study_sessions) : "date_text" \in DOMAIN study_sessions[i]
    /\ \E i \in 1..Len(quiz_history) : "topic_list" \in DOMAIN quiz_history[i]
    /\ ap_ret.value.error = "ValueError"
\* C23: the result of a pipeline run is returned only after the planner has
\* produced a plan, the quiz generator has returned, and both the
\* recommender and the progress tracker have returned.
C23_DoneAfterEveryStage ==
    rs_ret.kind = "returned" =>
        /\ sp_ret.kind = "returned"
        /\ qg_ret.kind # "none"
        /\ rr_ret.kind # "none"
        /\ ap_ret.kind # "none"
\* no create_session call made so far returned the identifier
NeverCreated(session_id) ==
    \A j \in 1..Len(store_log) :
        store_log[j].call = "create_session" => store_log[j].session_id # session_id

\* C24: absence is a normal outcome.  A get_session call on an identifier
\* that was never created returns None, an update_session call on such an
\* identifier returns False, and neither changes the store.
C24_AbsenceIsNormal ==
    [][ Len(store_log') = Len(store_log) + 1 =>
          LET e == store_log'[Len(store_log')]
          IN  (e.call \in {"get_session", "update_session"}
               /\ NeverCreated(e.session_id)) =>
                  /\ memory_store' = memory_store
                  /\ e.call = "get_session" => e.result.kind = "None"
                  /\ e.call = "update_session" => e.result = "False" ]_vars

\* _call_gemini has returned or raised
CallEnded == cg_pc \in {"returned", "raised"}

\* C25 (as claimed): _call_gemini makes at most 3 invocations and then
\* ends, and a call that has ended slept 2^i seconds after each attempt i
\* (0-based) that failed: 1s, 2s and 4s after attempts 0, 1 and 2.
C25_SleepsAfterEveryFailure ==
    /\ Len(invocations) <= max_retries
    /\ Len(invocations) = max_retries => CallEnded
    /\ CallEnded =>
          \A i \in 1..Len(invocations) :
              ~invocations[i].ok => (Len(sleeps) >= i /\ sleeps[i] = 2 ^ (i - 1))

\* C25 (amended): _call_gemini makes at most 3 invocations and then ends,
\* and it sleeps only between consecutive attempts: 2^i seconds after a
\* failed attempt i (0-based) that another attempt follows, so 1s after
\* attempt 0 and 2s after attempt 1.  The failure of attempt 2 is re-raised
\* at once, without the 4s sleep.
C25_SleepsBetweenAttempts ==
    /\ Len(invocations) <= max_retries
    /\ Len(invocations) = max_retries => CallEnded
    /\ cg_pc \in {"try", "sleep"} => \A i \in 1..Len(invocations) : ~invocations[i].ok
    /\ cg_pc \in {"try", "sleep"} => Len(sleeps) = Len(invocations)
    /\ cg_pc = "returned" => Len(sleeps) = Len(invocations) - 1
    /\ cg_pc = "raised" =>
          /\ Len(invocations) = max_retries
          /\ \A i \in 1..max_retries : ~invocations[i].ok
          /\ Len(sleeps) = max_retries - 1
    /\ \A i \in 1..Len(sleeps) : sleeps[i] = 2 ^ (i - 1)

\* C25 witness: three failed attempts; the call has raised after sleeps of
\* 1s and 2s only.
C25_Witness ==
    /\ cg_pc = "raised"
    /\ Len(invocations) = 3
    /\ sleeps = <<1, 2>>
\* the entries returned for the topic
EntriesOf(t) == {i \in 1..Len(ret.value) : ret.value[i].topic = t}

\* C26: identify_gaps is complete and duplicate-free.  No topic has two
\* entries, every topic of the history whose mean score is below 60 has
\* one, and that entry's attempts is the number of attempts the history
\* records for the topic.
C26_GapsCompleteAndDuplicateFree ==
    GapsReturned =>
        \A t \in Topics :
            /\ Cardinality(EntriesOf(t)) <= 1
            /\ (AttemptsOf(t) # {} /\ MeanBelow(t, 60)) =>
                  /\ Cardinality(EntriesOf(t)) = 1
                  /\ \A i \in EntriesOf(t) :
                        ret.value[i].attempts = Cardinality(AttemptsOf(t))

\* C26 witness: a topic attempted twice with a mean below 60 and a second
\* gap topic: two entries, the first topic's counting both attempts.
C26_Witness ==
    /\ GapsReturned
    /\ Len(ret.value) = 2
    /\ \E i \in 1..2 :
          /\ ret.value[i].attempts = 2
          /\ Cardinality(AttemptsOf(ret.value[i].topic)) = 2
\* the attempts only the first window holds and those only the last window
\* holds, for 3 to 5 attempts, and the difference of their totals
UnsharedEarly == 1..(Len(quiz_history) - WindowSize)
UnsharedRecent == (WindowSize + 1)..Len(quiz_history)
UnsharedChange == TotalOver(UnsharedRecent) - TotalOver(UnsharedEarly)

Sign(x) == IF x > 0 THEN 1 ELSE IF x < 0 THEN 0 - 1 ELSE 0

\* the quotient of the change and the early total rounds to 0.00
RoundsToZero == Abs(UnsharedChange) <= EarlyTotal \div (2 * 100 * 100)

\* C27 (as claimed): for exactly 3 attempts improvement_rate is 0, and for
\* 3 to 5 attempts the sign of improvement_rate is the sign of the change
\* between the attempts the two windows do not share, whatever the shared
\* attempts are.
C27_SharedAttemptsKeepSign ==
    (PerfReturned /\ Len(quiz_history) \in WindowSize..(2 * WindowSize - 1)) =>
        /\ Len(quiz_history) = WindowSize => ret.value.improvement_rate = 0
        /\ Sign(ret.value.improvement_rate) = Sign(UnsharedChange)

\* C27 (amended): for exactly 3 attempts improvement_rate is 0, and for 3
\* to 5 attempts the shared attempts never reverse the sign of the change
\* between the unshared ones; they make improvement_rate 0 when the first
\* three scores are all 0 or when the quotient rounds to 0.00, and only
\* then.
C27_SharedAttemptsNeverReverseSign ==
    (PerfReturned /\ Len(quiz_history) \in WindowSize..(2 * WindowSize - 1)) =>
        /\ Len(quiz_history) = WindowSize => ret.value.improvement_rate = 0
        /\ IF EarlyTotal = 0 \/ RoundsToZero
           THEN ret.value.improvement_rate = 0
           ELSE Sign(ret.value.improvement_rate) = Sign(UnsharedChange)

\* C27 witness: scores 0, 0, 0, 40: the unshared attempts rise from 0 to 40
\* and the shared zeros make the first window's mean 0, so the rate is 0.
C27_Witness ==
    /\ PerfReturned
    /\ Scores(quiz_history) = <<0, 0, 0, 40000>>
    /\ ret.value.improvement_rate = 0
DefaultLimit == 50
HistoryUsers == { <<"u", "1">>, <<"u", "1", "0">> }
HistoryRecords == { [subject |-> "Math"] }
Limits == {1, DefaultLimit}
DecimalDigits == <<"0", "1", "2", "3", "4", "5", "6", "7", "8", "9">>

\* f"{kind}_{user_id}", the prefix the histories are filtered by
KeyPrefix(kind, user_id) == <<kind, "_">> \o user_id

\* f"{kind}_{user_id}_{int(datetime.now().timestamp())}"
RecordKey(kind, user_id, second) ==
    KeyPrefix(kind, user_id) \o <<"_", DecimalDigits[second + 1]>>

\* k.startswith(prefix)
StartsWith(k, prefix) ==
    Len(k) >= Len(prefix) /\ SubSeq(k, 1, Len(prefix)) = prefix

\* a.get('timestamp', '') > b.get('timestamp', '')
Later(a, b) ==
    \/ a.timestamp[1] > b.timestamp[1]
    \/ a.timestamp[1] = b.timestamp[1] /\ a.timestamp[2] > b.timestamp[2]

\* records.sort(key=lambda x: x.get('timestamp', ''), reverse=True)
RECURSIVE NewestFirst(_)
NewestFirst(records) ==
    IF records = {} THEN <<>>
    ELSE LET newest == CHOOSE r \in records : \A q \in records : ~Later(q, r)
         IN  <<newest>> \o NewestFirst(records \ {newest})

\* records[:limit]
UpTo(records, limit) ==
    IF Len(records) <= limit THEN records ELSE SubSeq(records, 1, limit)

\* [v for k, v in self.memory_store.items() if k.startswith(f"{kind}_{user_id}")]
MatchingRecords(kind, user_id) ==
    { memory_store[k] : k \in { key \in DOMAIN memory_store :
          StartsWith(key, KeyPrefix(kind, user_id)) } }

\* the body shared by save_study_record and save_quiz_result
SaveRecord(call, kind) ==
    /\ \E user_id \in HistoryUsers, record \in HistoryRecords :
          LET record_key == RecordKey(kind, user_id, now)
              study_data == DictUpdate([user_id |-> user_id,
                                        timestamp |-> <<now, Len(store_log)>>],
                                       record)
          IN  /\ memory_store' = IF fb_mock_mode
                                 THEN Put(memory_store, record_key, study_data)
                                 ELSE memory_store
              /\ store_log' = Append(store_log,
                                 [call |-> call, kind |-> kind, user_id |-> user_id,
                                  result |-> TRUE])
    /\ UNCHANGED <<fb_mock_mode, update_tasks>>
    /\ UNCHANGED <<analytics, callers, planner, quizgen, session, fanout, insightgen, clock>>

\* save_study_record(user_id, record)
SaveStudyRecord ==
    /\ StoreSteps < MaxStoreSteps
    /\ SaveRecord("save_study_record", "study")

\* save_quiz_result(user_id, quiz_data)
SaveQuizResult ==
    /\ StoreSteps < MaxStoreSteps
    /\ SaveRecord("save_quiz_result", "quiz")

\* get_study_history(user_id, limit): None with credentials (the branch is
\* a pass)
GetStudyHistory ==
    /\ StoreSteps < MaxStoreSteps
    /\ \E user_id \in HistoryUsers, limit \in Limits :
          store_log' = Append(store_log,
              [call |-> "get_study_history", kind |-> "study", user_id |-> user_id,
               limit |-> limit,
               result |-> IF fb_mock_mode
                          THEN [kind |-> "list",
                                value |-> UpTo(NewestFirst(MatchingRecords("study", user_id)),
                                               limit)]
                          ELSE [kind |-> "None"]])
    /\ UNCHANGED <<fb_mock_mode, memory_store, update_tasks>>
    /\ UNCHANGED <<analytics, callers, planner, quizgen, session, fanout, insightgen, clock>>

\* get_quiz_history(user_id): no limit
GetQuizHistory ==
    /\ StoreSteps < MaxStoreSteps
    /\ \E user_id \in HistoryUsers :
          store_log' = Append(store_log,
              [call |-> "get_quiz_history", kind |-> "quiz", user_id |-> user_id,
               result |-> IF fb_mock_mode
                          THEN [kind |-> "list",
                                value |-> NewestFirst(MatchingRecords("quiz", user_id))]
                          ELSE [kind |-> "None"]])
    /\ UNCHANGED <<fb_mock_mode, memory_store, update_tasks>>
    /\ UNCHANGED <<analytics, callers, planner, quizgen, session, fanout, insightgen, clock>>

InitHistory == InitStore

NextHistory ==
    \/ Tick
    \/ SaveStudyRecord
    \/ SaveQuizResult
    \/ GetStudyHistory
    \/ GetQuizHistory

SpecHistory == InitHistory /\ [][NextHistory]_vars

\* the calls that read a history and returned a list
HistoryReads ==
    {j \in 1..Len(store_log) :
        /\ store_log[j].call \in {"get_study_history", "get_quiz_history"}
        /\ store_log[j].result.kind = "list"}

\* C29: a history read for user u returns only records whose user_id is u,
\* also when u is a prefix of another user's id.
C29_HistoriesAreIsolated ==
    \A j \in HistoryReads :
        \A i \in 1..Len(store_log[j].result.value) :
            store_log[j].result.value[i].user_id = store_log[j].user_id

\* the saves of the kind made for the user before call j
SavesBefore(j) ==
    {i \in 1..(j - 1) :
        /\ store_log[i].call \in {"save_study_record", "save_quiz_result"}
        /\ store_log[i].kind = store_log[j].kind
        /\ store_log[i].user_id = store_log[j].user_id
        /\ store_log[i].result = TRUE}

\* C30: no saved record is lost.  A history read made after n saves for the
\* user that returned True, with no limit or a limit of at least n, returns
\* a list of exactly n records, newest first.
C30_NoSavedRecordIsLost ==
    \A j \in 1..Len(store_log) :
        (/\ store_log[j].call \in {"get_study_history", "get_quiz_history"}
         /\ ("limit" \in DOMAIN store_log[j]
                => store_log[j].limit >= Cardinality(SavesBefore(j)))) =>
            /\ store_log[j].result.kind = "list"
            /\ Len(store_log[j].result.value) = Cardinality(SavesBefore(j))
            /\ \A a, b \in 1..Len(store_log[j].result.value) :
                  a < b => Later(store_log[j].result.value[a],
                                 store_log[j].result.value[b])
====
